---------------------------- MODULE Spec2Model ----------------------------
(***************************************************************************)
(* pyftms: the control-point protocol of MachineController                 *)
(* (client/backends/controller.py) together with the transport events the   *)
(* facade (client/client.py) reacts to.                                     *)
(*                                                                          *)
(* A write_command call is a coroutine.  Its suspension points are the      *)
(* await inside subscribe() and the asyncio.wait_for(gather(write,          *)
(* indication future)); everything between two suspension points is one     *)
(* step of the model.  Transport callbacks (_on_indicate,                   *)
(* _on_machine_status, _on_disconnect) are synchronous and are one step     *)
(* each.                                                                    *)
(*                                                                          *)
(* DataUpdater (client/backends/updater.py) and MachineController are       *)
(* given their callback at construction: their actions record the events    *)
(* they pass to it in last.events.  The callback the facade gives them,     *)
(* PropertiesManager._on_event (client/manager.py), is the action OnEvent.  *)
(***************************************************************************)
EXTENDS Integers, Sequences, FiniteSets, TLC

(* ---------------------------------------------------------------------- *)
(* Bounds of the model                                                     *)
(* ---------------------------------------------------------------------- *)

\* write_command calls made in one run.
MaxCalls == 2

\* target speeds offered to set_target_speed, in units of 0.01 km/h: 1..MaxSpeed.
MaxSpeed == 1

\* values a field of a realtime record takes on the wire: 0..MaxValue.
MaxValue == 1

\* events the facade's callback is called with in one run.
MaxEvents == 3

\* numbers offered to NumSerializer.serialize: k * 10^-d for |k| <= MaxRaw.
MaxRaw == 7

(* ---------------------------------------------------------------------- *)
(* Program constants                                                       *)
(* ---------------------------------------------------------------------- *)

\* ControlCode
REQUEST_CONTROL == 0
RESET == 1
SPEED == 2
POWER == 5
START_RESUME == 7
STOP_PAUSE == 8
RESPONSE == 128

\* ResultCode
SUCCESS == 1
NOT_SUPPORTED == 2
INVALID_PARAMETER == 3
FAILED == 4
NOT_PERMITTED == 5

\* StopPauseCode
SP_STOP == 1
SP_PAUSE == 2

\* MachineStatusCode
MS_RESET == 1
MS_STOP_PAUSE == 2
MS_STOP_SAFETY == 3
MS_START_RESUME == 4
MS_SPEED == 5
MS_POWER == 8
MS_TIME_1 == 14
MS_TIME_2 == 15
MS_TIME_3 == 16
MS_TIME_5 == 17
MS_CADENCE == 21
MS_LOST_CONTROL == 255

\* TrainingStatusCode.IDLE, the value the machine reports when read at subscribe.
TS_IDLE == 1

ResultCodes == {SUCCESS, NOT_SUPPORTED, INVALID_PARAMETER, FAILED, NOT_PERMITTED}

\* The tasks of the event loop that call write_command; each has one call
\* under way at a time.
Calls == {1, 2}

\* The one task of a caller that awaits each command before the next.
SerialCalls == {1}

Speeds == 1..MaxSpeed

(* ---------------------------------------------------------------------- *)
(* State                                                                   *)
(* ---------------------------------------------------------------------- *)

VARIABLES
    connected,   \* FitnessMachine._cli is a connected BleakClient
    auth,        \* MachineController._auth
    subscribed,  \* MachineController._subscribed
    indicate,    \* MachineController._indicate: the call whose future it is (0: unset)
    fut,         \* the asyncio.Future each call created last
    calls,       \* the write_command coroutines
    mq,          \* requests the machine has received and not yet answered
    ncalls,      \* write_command calls made so far
    last,        \* the step taken last and the events it passed to the callback
    prev,        \* DataUpdater._prev
    result,      \* DataUpdater._result
    notify,      \* the notification handled last and how it ended
    m_settings,  \* FitnessMachine._m_settings, the settings bitmap read at connect
    properties,  \* PropertiesManager._properties
    settings,    \* PropertiesManager._settings
    live_properties, \* PropertiesManager._live_properties
    history,     \* the events _on_event has been called with, oldest first
    session,     \* how many of them it had been called with at the last connect
    need_connect, \* FitnessMachine._need_connect
    called,      \* the argument a function that keeps no state is called with
    returned     \* what the call returned or raised

\* The state of the DataUpdater.
updater == <<prev, result, notify>>

\* The state of the facade, FitnessMachine with its PropertiesManager.
manager == <<m_settings, properties, settings, live_properties, history>>
facade == <<manager, session, need_connect>>

\* A call of a function of the library that keeps no state.
func == <<called, returned>>

vars == <<connected, auth, subscribed, indicate, fut, calls, mq, ncalls, last,
          prev, result, notify, m_settings, properties, settings,
          live_properties, history, session, need_connect, called, returned>>

(* ---------------------------------------------------------------------- *)
(* Events (client/backends/event.py)                                       *)
(* ---------------------------------------------------------------------- *)

ControlEvent(id, source) ==
    [event_id |-> id, event_source |-> source, event_data |-> <<>>]

SetupEvent(data, source) ==
    [event_id |-> "setup", event_source |-> source, event_data |-> data]

TrainingStatusEvent(code) ==
    [event_id |-> "training_status", event_source |-> "", event_data |-> <<"code", code>>]

(* ---------------------------------------------------------------------- *)
(* Models                                                                  *)
(* ---------------------------------------------------------------------- *)

\* The ControlCode in the metadata of a ControlModel field.
FieldCode(name) ==
    CASE name = "target_speed" -> SPEED
      [] name = "target_power" -> POWER
      [] name = "stop_pause" -> STOP_PAUSE

\* ControlModel(code=code, **kwargs): a call without a code takes the code of
\* the one field it sets.  code and kwargs are <<>> (None, no keyword) or a
\* one-element / <<name, value>> tuple.
ControlModel(code, kwargs) ==
    [code |-> IF code # <<>> THEN code[1] ELSE FieldCode(kwargs[1]),
     param |-> kwargs]

\* _to_setup_event_data: the model as a dict without "code".
to_setup_event_data(m) == m.param

simple_control_events(m) ==
    CASE m.code = RESET -> <<ControlEvent("reset", "callback")>>
      [] m.code = STOP_PAUSE ->
            <<ControlEvent(IF m.param[2] = SP_STOP THEN "stop" ELSE "pause", "callback")>>
      [] m.code = START_RESUME -> <<ControlEvent("start", "callback")>>
      [] OTHER -> <<>>

\* _simple_status_events taking every STOP_PAUSE for a stop.
StatusAlwaysStop(m) ==
    CASE m.code = MS_RESET -> <<ControlEvent("reset", "other")>>
      [] m.code = MS_STOP_PAUSE -> <<ControlEvent("stop", "user")>>
      [] m.code = MS_STOP_SAFETY -> <<ControlEvent("stop", "safety")>>
      [] m.code = MS_START_RESUME -> <<ControlEvent("start", "user")>>
      [] OTHER -> <<>>

simple_status_events(m) ==
    CASE m.code = MS_RESET -> <<ControlEvent("reset", "other")>>
      [] m.code = MS_STOP_PAUSE ->
            <<ControlEvent(IF m.param[2] = SP_STOP THEN "stop" ELSE "pause", "user")>>
      [] m.code = MS_STOP_SAFETY -> <<ControlEvent("stop", "safety")>>
      [] m.code = MS_START_RESUME -> <<ControlEvent("start", "user")>>
      [] OTHER -> <<>>

\* What the facade's typed commands hand to write_command: (code, kwargs).
Commands ==
    { <<<<REQUEST_CONTROL>>, <<>> >>, <<<<RESET>>, <<>> >>,
      <<<<START_RESUME>>, <<>> >>,
      << <<>>, <<"stop_pause", SP_STOP>> >>, << <<>>, <<"stop_pause", SP_PAUSE>> >> }
    \cup { << <<>>, <<"target_speed", v>> >> : v \in Speeds }

\* The commands the two concurrent tasks choose from.
ConcurrentCommands ==
    { <<<<REQUEST_CONTROL>>, <<>> >>, <<<<RESET>>, <<>> >> }
    \cup { << <<>>, <<"target_speed", v>> >> : v \in Speeds }

\* The result codes the machine answers the concurrent tasks with.
ConcurrentResults == {SUCCESS, NOT_PERMITTED}

\* The machine-status notifications the machine may send.
StatusNotifications ==
    { [code |-> MS_RESET, param |-> <<>>],
      [code |-> MS_STOP_PAUSE, param |-> <<"stop_pause", SP_STOP>>],
      [code |-> MS_STOP_PAUSE, param |-> <<"stop_pause", SP_PAUSE>>],
      [code |-> MS_STOP_SAFETY, param |-> <<>>],
      [code |-> MS_START_RESUME, param |-> <<>>],
      [code |-> MS_LOST_CONTROL, param |-> <<>>] }
    \cup { [code |-> MS_SPEED, param |-> <<"target_speed", v>>] : v \in Speeds }

(* ---------------------------------------------------------------------- *)
(* Futures and call records                                                *)
(* ---------------------------------------------------------------------- *)

NoFuture == [state |-> "none", data |-> <<>>]
Pending == [state |-> "pending", data |-> <<>>]
Cancelled == [state |-> "cancelled", data |-> <<>>]
Result(d) == [state |-> "result", data |-> <<d>>]
\* A future that has a result nobody will read (any more).
Spent == [state |-> "result", data |-> <<>>]

\* asyncio.Future.done()
FutDone(f) == f.state \in {"result", "cancelled"}

NoOutcome == <<>>
Return(code) == <<"return", code>>
Raise(exc) == <<"raise", exc>>

\* A write_command coroutine: where it is suspended (pc), whether it is in
\* the recursive REQUEST_CONTROL call (frame), its arguments, whether the
\* BleakClient it was given is still connected (cli), and what it has done
\* so far: the codes it wrote, the indications it was woken with (their
\* request code and result code; own: the machine sent it for this frame's
\* write; kind: what the frame did on it, return or raise), the events
\* lines 186-225 passed to the callback, whether the transport dropped
\* while it was waiting for an indication (lost), and whether it was called
\* right after a LOST_CONTROL notification (after_lost), and whether a
\* LOST_CONTROL notification was handled after the frame wrote the request it
\* is waiting on (stale).
IdleCall ==
    [pc |-> "idle", frame |-> "outer", code |-> <<>>, kwargs |-> <<>>,
     cli |-> FALSE, lost |-> FALSE, after_lost |-> FALSE, stale |-> FALSE,
     wrote |-> <<>>,
     got |-> <<>>, events |-> <<>>, outcome |-> NoOutcome]

\* The request the call's current frame writes: the recursive call of lines
\* 141-145 writes REQUEST_CONTROL, the call itself its own request.
Request(c) ==
    IF c.frame = "inner"
    THEN ControlModel(<<REQUEST_CONTROL>>, <<>>)
    ELSE ControlModel(c.code, c.kwargs)

\* The step taken last: the handler, the call or status code it was about,
\* the events it passed to the callback and, when it ended a call, the call.
Step(op, arg, events, call) ==
    [op |-> op, arg |-> arg, events |-> events, call |-> call]

\* A step that calls no callback and ends no call.
Quiet == Step("", 0, <<>>, IdleCall)

(* ---------------------------------------------------------------------- *)
(* DataUpdater (client/backends/updater.py)                                *)
(* ---------------------------------------------------------------------- *)

\* UpdateEvent (client/backends/event.py).
UpdateEvent(update) == [event_id |-> "update", event_data |-> update]

\* The serialised fields of the realtime data model in wire order: the
\* first three of TreadmillData.  Field i is announced by bit i - 1 of the
\* flags word.
DataFields == <<"speed_instant", "speed_average", "distance_total">>

Values == 0..MaxValue

\* Bit i of the flags word.
Bit(mask, i) == (mask \div 2^i) % 2

\* RealtimeData._deserialize_asdict: bit 0 (More Data) is inverted, so the
\* first field is on the wire when the bit is clear.
Present(mask, i) == IF i = 1 THEN Bit(mask, 0) = 0 ELSE Bit(mask, i - 1) = 1

\* Position in the payload of field i, the fields present being written in
\* wire order after the flags word.
Rank(mask, i) == Cardinality({j \in 1..i : Present(mask, j)})

\* A dict with no items.
Empty == [k \in {} |-> 0]

FieldIndex(k) == CHOOSE i \in 1..Len(DataFields) : DataFields[i] = k

\* deserialize(data)._asdict(): the fields the flags word announces, each
\* with the value at its position of the payload; mask is an InitVar and no
\* item of the dict.
deserialize(data) ==
    [k \in {DataFields[i] : i \in {j \in 1..Len(DataFields) : Present(data.mask, j)}}
        |-> data.vals[Rank(data.mask, FieldIndex(k))]]

\* Well-formed realtime notifications: a flags word and one value for each
\* field it announces.
Notifications ==
    UNION {{[mask |-> m, vals |-> v] : v \in [1..Rank(m, Len(DataFields)) -> Values]}
           : m \in 0..(2^Len(DataFields) - 1)}

\* a | b on dicts.
Merge(a, b) ==
    [k \in DOMAIN a \cup DOMAIN b |-> IF k \in DOMAIN b THEN b[k] ELSE a[k]]

\* The items of a dict.
Items(a) == {<<k, a[k]>> : k \in DOMAIN a}

\* a ^ b on sets.
SymDiff(a, b) == (a \ b) \cup (b \ a)

\* any(d.values()) taken to hold of every dict.
AlwaysSome(d) == TRUE

\* any(d.values())
AnyValue(d) == \E k \in DOMAIN d : d[k] # 0

\* More Data, bit 0 of the first byte of the notification.
MoreData(data) == Bit(data.mask, 0) = 1

\* A reset() that clears the snapshot alone.
ResetKeepsAccumulator == [prev |-> Empty, result |-> result]

\* A reset() that clears the accumulator alone.
ResetKeepsSnapshot == [prev |-> prev, result |-> Empty]

\* DataUpdater.reset(): (_prev, _result) afterwards.
updater_reset == [prev |-> Empty, result |-> Empty]

\* No notification handled since the updater subscribed (fresh: a realtime
\* notification found the snapshot _prev empty, nothing passed on since the
\* last reset()).
NoNotification == [data |-> <<>>, raised |-> "", fresh |-> FALSE]

\* The keys of the update _on_notify builds from the accumulated record cur
\* and the snapshot old: those of the items in which the two differ.
UpdateKeys(cur, old) == {i[1] : i \in SymDiff(Items(cur), Items(old))}

\* _on_notify past the More Data test, cur being the accumulated record:
\* the update is built and passed on, the snapshot taken, _result cleared.
Closing(old, cur) ==
    LET keys == UpdateKeys(cur, old)
    IN  IF ~AnyValue(cur)
        THEN [prev |-> old, result |-> Empty, events |-> <<>>, raised |-> ""]
        ELSE IF ~(keys \subseteq DOMAIN cur)
        THEN [prev |-> old, result |-> cur, events |-> <<>>, raised |-> "KeyError"]
        ELSE IF keys # {}
        THEN [prev |-> cur, result |-> Empty,
              events |-> <<UpdateEvent([k \in keys |-> cur[k]])>>, raised |-> ""]
        ELSE [prev |-> old, result |-> Empty, events |-> <<>>, raised |-> ""]

\* _on_notify without the More Data test.
EagerNotify(old, acc, data) == Closing(old, Merge(acc, deserialize(data)))

\* _on_notify(data): what it leaves in _prev and _result, the events it
\* passes to the callback and the exception it raises.
on_notify(old, acc, data) ==
    LET cur == Merge(acc, deserialize(data))
    IN  IF MoreData(data)
        THEN [prev |-> old, result |-> cur, events |-> <<>>, raised |-> ""]
        ELSE Closing(old, cur)

(* ---------------------------------------------------------------------- *)
(* Settings and cached state of the facade                                 *)
(* ---------------------------------------------------------------------- *)

\* SpinDownEvent (client/backends/event.py).
SpinDownEvent(code) == [event_id |-> "spin_down", event_data |-> <<"code", code>>]

\* Fields of ControlModel with a features_bit, in declaration order: the
\* name (digit as in StatusFields) and the bit.  target_time itself has no
\* metadata.
ControlFields ==
    << [name |-> "target_speed", digit |-> 0, bit |-> 0],
       [name |-> "target_power", digit |-> 0, bit |-> 3],
       [name |-> "target_time", digit |-> 1, bit |-> 9],
       [name |-> "target_time", digit |-> 2, bit |-> 10],
       [name |-> "target_time", digit |-> 3, bit |-> 11],
       [name |-> "target_time", digit |-> 5, bit |-> 12] >>

\* The settings bits of the fields above.
SettingsBits == {ControlFields[i].bit : i \in DOMAIN ControlFields}

\* The settings bitmaps a machine may advertise: any of the bits above.
SettingsBitmaps ==
    {m \in 0..(2^13 - 1) : \A b \in 0..12 : Bit(m, b) = 1 => b \in SettingsBits}

\* The bitmap that advertises every setting above.
EverySetting == CHOOSE m \in SettingsBitmaps : \A b \in SettingsBits : Bit(m, b) = 1

\* _get_features taking every field for advertised.
EveryField(features) ==
    {<<ControlFields[i].name, ControlFields[i].digit>> : i \in DOMAIN ControlFields}

\* supported_settings: ControlModel._get_features(_m_settings), the names of
\* the fields whose features_bit is set in the bitmap.
supported_settings(features) ==
    {<<ControlFields[i].name, ControlFields[i].digit>> :
        i \in {j \in DOMAIN ControlFields : Bit(features, ControlFields[j].bit) = 1}}

\* The setting ids and values the typed commands pass to set_setting:
\* set_target_speed(v), set_target_power(v), set_target_time(*seconds), and a
\* set_setting call without a value.
SettingCalls ==
    { <<<<"target_speed", 0>>, <<v>> >> : v \in Speeds }
    \cup { <<<<"target_power", 0>>, <<v>> >> : v \in Speeds }
    \cup { <<<<"target_time", 0>>, [i \in 1..n |-> 1]>> : n \in {1, 2, 3, 5} }
    \cup { <<<<"target_speed", 0>>, <<>> >> }

\* The event data of a Setup event as a dict.
AsDict(data) == IF data = <<>> THEN Empty ELSE [k \in {data[1]} |-> data[2]]

\* _on_event on maps in which the value cached first stays.
FirstValueStays(e, props, sets) ==
    CASE e.event_id = "update" -> [properties |-> Merge(e.event_data, props), settings |-> sets]
      [] e.event_id = "setup" ->
            [properties |-> props, settings |-> Merge(AsDict(e.event_data), sets)]
      [] OTHER -> [properties |-> props, settings |-> sets]

\* PropertiesManager._on_event(e): (_properties, _settings) afterwards.
on_event(e, props, sets) ==
    CASE e.event_id = "update" -> [properties |-> Merge(props, e.event_data), settings |-> sets]
      [] e.event_id = "setup" ->
            [properties |-> props, settings |-> Merge(sets, AsDict(e.event_data))]
      [] OTHER -> [properties |-> props, settings |-> sets]

\* A callback that takes every name of an update event for live.
LiveWhateverValue(e, live) ==
    IF e.event_id = "update" THEN live \cup DOMAIN e.event_data ELSE live

\* The names _on_event adds to _live_properties: those an update event
\* carries with a value that is not zero.
live_update(e, live) ==
    IF e.event_id = "update"
    THEN live \cup {k \in DOMAIN e.event_data : e.event_data[k] # 0}
    ELSE live

\* Events the updater and the controller pass to their callback.
FtmsEvents ==
    { UpdateEvent(d) :
        d \in UNION {[ks -> Values] : ks \in SUBSET {DataFields[1], DataFields[2]} \ {{}}} }
    \cup { SetupEvent(<<n, v>>, src) :
             n \in {"target_speed", "target_power"}, v \in Speeds,
             src \in {"callback", "other"} }
    \cup { ControlEvent("stop", "user"), TrainingStatusEvent(TS_IDLE),
           SpinDownEvent(1) }

\* No function has been called.
NoCall == [fn |-> "none"]

\* The state after construction, on a machine with the settings bitmap m.
InitState(m) ==
    /\ m_settings = m
    /\ properties = Empty
    /\ settings = Empty
    /\ live_properties = {}
    /\ history = <<>>
    /\ session = 0
    /\ need_connect = FALSE
    /\ called = NoCall
    /\ returned = NoCall
    /\ prev = Empty
    /\ result = Empty
    /\ notify = NoNotification
    /\ connected = FALSE
    /\ auth = FALSE
    /\ subscribed = FALSE
    /\ indicate = 0
    /\ fut = [p \in Calls |-> NoFuture]
    /\ calls = [p \in Calls |-> IdleCall]
    /\ mq = <<>>
    /\ ncalls = 0
    /\ last = Step("init", 0, <<>>, IdleCall)

Init == InitState(EverySetting)

(* ---------------------------------------------------------------------- *)
(* MachineController                                                       *)
(* ---------------------------------------------------------------------- *)

\* reset(): (_subscribed, _auth) afterwards.
reset == [subscribed |-> FALSE, auth |-> FALSE]

\* A controller that never requests control on its own.
NeverRequestsControl(a, code) == FALSE

\* Line 140: the call first requests control.
NeedsRequestControl(a, code) == ~a /\ code # <<REQUEST_CONTROL>>

\* Lines 147-155 up to the first suspension: with the subscriptions active,
\* subscribe() returns at once, the call replaces self._indicate by a new
\* future and suspends in wait_for with its write scheduled; otherwise it
\* suspends inside subscribe().
Begin(p, c, sub) ==
    [call |-> [c EXCEPT !.pc = IF sub THEN "write" ELSE "subscribe", !.stale = FALSE],
     fut |-> IF sub THEN Pending ELSE fut[p],
     indicate |-> IF sub THEN p ELSE indicate]

\* Requests that stay those of the call that wrote them.
Kept(q, p) == q

\* The requests of call p the machine still holds are, once the frame that
\* wrote them has left its wait_for, requests nobody waits for.
Orphan(q, p) ==
    [i \in 1..Len(q) |-> IF q[i].src = p THEN [q[i] EXCEPT !.src = 0] ELSE q[i]]

\* write_command is called (through the facade, so on a connected client).
Call(p, cmd) ==
    /\ connected
    /\ calls[p].pc = "idle"
    /\ \A q \in Calls : q < p => calls[q].pc # "idle"
    /\ ncalls < MaxCalls
    /\ ncalls' = ncalls + 1
    /\ LET c == [IdleCall EXCEPT
                    !.frame = IF NeedsRequestControl(auth, cmd[1])
                              THEN "inner" ELSE "outer",
                    !.code = cmd[1], !.kwargs = cmd[2], !.cli = TRUE,
                    !.after_lost = /\ last.op = "machine_status"
                                   /\ last.arg = MS_LOST_CONTROL]
           b == Begin(p, c, subscribed)
       IN /\ calls' = [calls EXCEPT ![p] = b.call]
          /\ fut' = [fut EXCEPT ![p] = b.fut]
          /\ indicate' = b.indicate
    /\ last' = Quiet
    /\ UNCHANGED <<connected, auth, subscribed, mq, updater, facade, func>>

\* subscribe() resumes after its reads and start_notify calls: the training
\* status read is passed to _on_training_status, _subscribed is set, and
\* write_command goes on to create its future.
SubscribeDone(p) ==
    /\ calls[p].pc = "subscribe"
    /\ calls[p].cli
    /\ LET ev == <<TrainingStatusEvent(TS_IDLE)>>
           b == Begin(p, calls[p], TRUE)
       IN /\ calls' = [calls EXCEPT ![p] = b.call]
          /\ fut' = [fut EXCEPT ![p] = b.fut]
          /\ indicate' = b.indicate
          /\ last' = Step("subscribe", p, ev, IdleCall)
    /\ subscribed' = TRUE
    /\ UNCHANGED <<ncalls, connected, auth, mq, updater, facade, func>>

\* The call ends: it returns or raises `outcome`.
End(c, outcome) == [c EXCEPT !.pc = "done", !.outcome = outcome]

\* A read or start_notify inside subscribe() raises BleakError, before or
\* after the training status was read and passed on: line 154 is outside the
\* try block, the error leaves write_command as it is.
SubscribeFail(p) ==
    /\ calls[p].pc = "subscribe"
    /\ calls' = [calls EXCEPT ![p] = IdleCall]
    /\ \E ev \in {<<>>, <<TrainingStatusEvent(TS_IDLE)>>} :
            last' = Step("subscribe_error", p, ev, End(calls[p], Raise("BleakError")))
    /\ UNCHANGED <<ncalls, connected, auth, subscribed, indicate, fut, mq, updater, facade, func>>

\* The write task of gather() completes: the machine has the request.
WriteOk(p) ==
    /\ calls[p].pc = "write"
    /\ calls[p].cli
    /\ LET code == Request(calls[p]).code
       IN /\ mq' = Append(mq, [code |-> code, src |-> p])
          /\ calls' = [calls EXCEPT ![p].pc = "await", ![p].wrote = Append(@, code)]
    /\ last' = Quiet
    /\ UNCHANGED <<ncalls, connected, auth, subscribed, indicate, fut, updater, facade, func>>

\* An except clause that re-raises without reset().
ReraiseOnly(sub, a) == [subscribed |-> sub, auth |-> a]

\* Lines 169-171: what the except clause leaves in (_subscribed, _auth).
OnBleakError(sub, a) == reset

\* The write task raises BleakError: gather() passes it on at once (the
\* future stays pending), write_command resets the controller and re-raises.
WriteFail(p) ==
    /\ calls[p].pc = "write"
    /\ calls' = [calls EXCEPT ![p] = IdleCall]
    /\ subscribed' = OnBleakError(subscribed, auth).subscribed
    /\ auth' = OnBleakError(subscribed, auth).auth
    /\ last' = Step("write_error", p, <<>>, End(calls[p], Raise("BleakError")))
    /\ UNCHANGED <<ncalls, connected, indicate, fut, mq, updater, facade, func>>

\* _on_indicate: the future self._indicate afterwards.
on_indicate(f, data) == IF ~FutDone(f) THEN Result(data) ELSE f

\* The machine answers the oldest request it holds with an indication
\* {0x80, request opcode, result}; the transport calls _on_indicate.
Indicate(r) ==
    /\ connected
    /\ mq # <<>>
    /\ indicate # 0
    /\ LET data == [code |-> RESPONSE, request_code |-> Head(mq).code,
                    result_code |-> r, own |-> Head(mq).src = indicate]
       IN fut' = [fut EXCEPT ![indicate] =
                    IF calls[indicate].pc \in {"write", "await"}
                    THEN on_indicate(@, data)
                    ELSE IF on_indicate(@, data) = @ THEN @ ELSE Spent]
    /\ mq' = Tail(mq)
    /\ last' = Quiet
    /\ UNCHANGED <<ncalls, connected, auth, subscribed, indicate, calls, updater, facade, func>>

\* Control-point indications as they may arrive, whether or not anybody
\* asked: three bytes, each one of the codes of its enumeration (bytes
\* ControlIndicateModel._deserialize returns a model for).
ControlPointBytes ==
    [code : {RESPONSE, REQUEST_CONTROL}, request_code : {REQUEST_CONTROL, RESET},
     result_code : {SUCCESS, NOT_PERMITTED}, own : {FALSE}]

\* The transport calls _on_indicate(data) with bytes the machine sent on its
\* own.  __init__ annotates self._indicate and assigns nothing: until the
\* first write_command has created a future the attribute does not exist and
\* line 127 raises AttributeError.
OnIndicate(data) ==
    /\ connected
    /\ IF indicate = 0
       THEN /\ notify' = [data |-> data, raised |-> "AttributeError"]
            /\ UNCHANGED fut
       ELSE /\ notify' = [data |-> data, raised |-> ""]
            /\ fut' = [fut EXCEPT ![indicate] =
                          IF calls[indicate].pc \in {"write", "await"}
                          THEN on_indicate(@, data)
                          ELSE IF on_indicate(@, data) = @ THEN @ ELSE Spent]
    /\ last' = Step("indicate", 0, <<>>, IdleCall)
    /\ UNCHANGED <<ncalls, connected, auth, subscribed, indicate, calls, mq,
                   prev, result, facade, func>>

\* A controller that keeps _auth over a successful RESET.
AuthOnRequestOnly(a, c) == IF c = REQUEST_CONTROL THEN TRUE ELSE a

\* Lines 183-187: _auth after an indication of SUCCESS for request code c.
AuthOnSuccess(a, c) ==
    IF c = RESET THEN FALSE
    ELSE IF c = REQUEST_CONTROL THEN TRUE
    ELSE a

\* Lines 186-225: the events passed to the callback after SUCCESS.
SuccessEvents(req) ==
    IF req.code = REQUEST_CONTROL THEN <<>>
    ELSE IF simple_control_events(req) # <<>> THEN simple_control_events(req)
    ELSE <<SetupEvent(to_setup_event_data(req), "callback")>>

\* A frame that does not compare the indication's request code with its own.
HandleAny(req, ind, a) ==
    IF ind.result_code # SUCCESS
    THEN [kind |-> "return", value |-> ind.result_code, events |-> <<>>, auth |-> a]
    ELSE [kind |-> "return", value |-> SUCCESS, events |-> SuccessEvents(req),
          auth |-> AuthOnSuccess(a, req.code)]

\* A frame for which every result but SUCCESS is an error.
HandleRaising(req, ind, a) ==
    IF ind.request_code # req.code \/ ind.result_code # SUCCESS
    THEN [kind |-> "raise", value |-> 0, events |-> <<>>, auth |-> a]
    ELSE [kind |-> "return", value |-> SUCCESS, events |-> SuccessEvents(req),
          auth |-> AuthOnSuccess(a, req.code)]

\* Lines 173-225: what the frame does with the indication it was woken
\* with: "raise" ValueError, or "return" a result code, with the events it
\* emits and _auth afterwards.
Handle(req, ind, a) ==
    IF ind.request_code # req.code
    THEN [kind |-> "raise", value |-> 0, events |-> <<>>, auth |-> a]
    ELSE IF ind.result_code # SUCCESS
    THEN [kind |-> "return", value |-> ind.result_code, events |-> <<>>, auth |-> a]
    ELSE [kind |-> "return", value |-> SUCCESS, events |-> SuccessEvents(req),
          auth |-> AuthOnSuccess(a, req.code)]

\* wait_for returns: the write is done and the call's future has a result.
\* The recursive REQUEST_CONTROL frame returns into line 147 of the call
\* (its result is not looked at), the call's own frame to the caller.
Resume(p) ==
    /\ calls[p].pc = "await"
    /\ fut[p].state = "result"
    /\ LET c == calls[p]
           ind == fut[p].data[1]
           h == Handle(Request(c), ind, auth)
           c1 == [c EXCEPT !.got = Append(@, [code |-> ind.request_code,
                                              result |-> ind.result_code,
                                              own |-> ind.own,
                                              kind |-> h.kind]),
                          !.events = @ \o h.events]
       IN /\ auth' = h.auth
          /\ mq' = Orphan(mq, p)
          /\ IF h.kind = "return" /\ c.frame = "inner"
             THEN LET b == Begin(p, [c1 EXCEPT !.frame = "outer"], subscribed)
                  IN /\ calls' = [calls EXCEPT ![p] = b.call]
                     /\ fut' = [fut EXCEPT ![p] = IF b.fut = fut[p] THEN Spent ELSE b.fut]
                     /\ indicate' = b.indicate
                     /\ last' = Step("resume", p, h.events, IdleCall)
             ELSE /\ calls' = [calls EXCEPT ![p] = IdleCall]
                  /\ last' = Step("resume", p, h.events,
                                  End(c1, IF h.kind = "raise" THEN Raise("ValueError")
                                          ELSE Return(h.value)))
                  /\ fut' = [fut EXCEPT ![p] = Spent]
                  /\ UNCHANGED indicate
    /\ UNCHANGED <<ncalls, connected, subscribed, updater, facade, func>>

\* What the expiry of wait_for's timeout leaves in _auth: TimeoutError is no
\* BleakError, the except clause of line 169 does not run.
AuthOnTimeout(a) == a

\* wait_for cancels gather(), which cancels its children that are not done.
CancelFuture(f) == IF FutDone(f) THEN Spent ELSE Cancelled

\* The timeout of wait_for expires: TimeoutError leaves write_command.
Timeout(p) ==
    /\ calls[p].pc \in {"write", "await"}
    /\ fut' = [fut EXCEPT ![p] = CancelFuture(@)]
    /\ calls' = [calls EXCEPT ![p] = IdleCall]
    /\ auth' = AuthOnTimeout(auth)
    /\ mq' = Orphan(mq, p)
    /\ last' = Step("timeout", p, <<>>, End(calls[p], Raise("TimeoutError")))
    /\ UNCHANGED <<ncalls, connected, subscribed, indicate, updater, facade, func>>

\* None as a code or as the value of a number field: what NumSerializer
\* returns when the integer read is the sentinel of its format.
NoNumber == -1

\* Line 96 of models/common.py: the code of a notification is read by the u1
\* serializer, whose sentinel is the byte FF.
StatusCodeRead(c) == IF c = 2^8 - 1 THEN NoNumber ELSE c

\* A status handler that leaves _auth alone.
StatusKeepsAuth(a, m) == a

\* _on_machine_status: _auth afterwards.
StatusAuth(a, m) ==
    IF m.code \in {MS_LOST_CONTROL, MS_RESET} THEN FALSE ELSE a

\* _on_machine_status raises on a model without code: it is none of the
\* codes of lines 233-239 and result.pop("code") of line 50 finds no code in
\* _asdict(), which leaves out None: KeyError.
StatusRaises(m) == m.code = NoNumber

\* _on_machine_status: the events passed to the callback.
StatusEvents(m) ==
    IF m.code = MS_LOST_CONTROL \/ StatusRaises(m) THEN <<>>
    ELSE IF simple_status_events(m) # <<>> THEN simple_status_events(m)
    ELSE <<SetupEvent(to_setup_event_data(m), "other")>>

\* The calls once the notification m of the machine has been handled: a
\* frame that has written its request and waits in wait_for when the
\* machine reports LOST_CONTROL holds a request written before control was
\* lost.
StatusCalls(cs, m) ==
    [p \in Calls |-> IF m.code = MS_LOST_CONTROL /\ cs[p].pc = "await"
                     THEN [cs[p] EXCEPT !.stale = TRUE] ELSE cs[p]]

\* A machine-status notification arrives: _on_machine_status handles the
\* model decoded from it.
MachineStatus(m) ==
    /\ connected
    /\ LET status == [m EXCEPT !.code = StatusCodeRead(@)]
       IN  /\ auth' = StatusAuth(auth, status)
           /\ last' = Step("machine_status", m.code, StatusEvents(status), IdleCall)
    /\ calls' = StatusCalls(calls, m)
    /\ UNCHANGED <<ncalls, connected, subscribed, indicate, fut, mq, updater, facade, func>>

\* Fields of MachineStatusModel in declaration order: the code that selects
\* the field, its name (digit: the digit the name ends in after an
\* underscore, 0 when it ends in none) and the num of its metadata (0: a
\* number, read by a NumSerializer; n > 0: a ListSerializer of n numbers).
StatusFields ==
    << [code |-> MS_STOP_PAUSE, name |-> "stop_pause", digit |-> 0, num |-> 0],
       [code |-> MS_SPEED, name |-> "target_speed", digit |-> 0, num |-> 0],
       [code |-> MS_POWER, name |-> "target_power", digit |-> 0, num |-> 0],
       [code |-> MS_TIME_1, name |-> "target_time", digit |-> 1, num |-> 1],
       [code |-> MS_TIME_2, name |-> "target_time", digit |-> 2, num |-> 2],
       [code |-> MS_TIME_3, name |-> "target_time", digit |-> 3, num |-> 3],
       [code |-> MS_TIME_5, name |-> "target_time", digit |-> 5, num |-> 5],
       [code |-> MS_CADENCE, name |-> "target_cadence", digit |-> 0, num |-> 0] >>

\* The names cls(**kwargs) accepts.
StatusFieldNames ==
    {<<StatusFields[i].name, StatusFields[i].digit>> : i \in DOMAIN StatusFields}

\* Lines 108-110 of models/common.py: a name that ends in a digit loses its
\* last two characters.
StripDigit(name) == IF name[2] # 0 THEN <<name[1], 0>> ELSE name

\* ListSerializer._deserialize returns a generator: nothing is read from the
\* stream until somebody iterates it.
Generator == "generator"

\* Well-formed machine-status notifications as they arrive: the code and the
\* numbers that follow it, or the sentinel of the number's format (NoNumber
\* once read).
StatusWire ==
    { [code |-> c, payload |-> <<>>] :
        c \in {MS_RESET, MS_STOP_SAFETY, MS_START_RESUME, MS_LOST_CONTROL} }
    \cup { [code |-> MS_STOP_PAUSE, payload |-> <<v>>] : v \in {SP_STOP, SP_PAUSE} }
    \cup UNION {{ [code |-> StatusFields[i].code, payload |-> v] :
                     v \in [1..(IF StatusFields[i].num = 0 THEN 1
                                ELSE StatusFields[i].num) -> Values] }
                : i \in {j \in DOMAIN StatusFields : StatusFields[j].code # MS_STOP_PAUSE}}
    \cup { [code |-> StatusFields[i].code, payload |-> <<NoNumber>>] :
                i \in {j \in DOMAIN StatusFields :
                          StatusFields[j].num = 0 /\ StatusFields[j].code # MS_STOP_PAUSE} }

\* CodeSwitchModel._deserialize_asdict: the parameter that belongs to the
\* code is read under its stripped name, and the stream must then be at its
\* end (asserts: the interpreter executes assert statements).
CodeSwitch_deserialize_asdict(data, asserts) ==
    LET fs == {i \in DOMAIN StatusFields : StatusFields[i].code = data.code}
    IN  IF fs = {}
        THEN [raised |-> IF asserts /\ data.payload # <<>>
                         THEN "AssertionError" ELSE "",
              kwargs |-> <<>>]
        ELSE LET f == StatusFields[CHOOSE i \in fs : \A j \in fs : i <= j]
                 lazy == f.num > 0
                 value == IF lazy THEN Generator ELSE data.payload[1]
                 rest == IF lazy THEN data.payload ELSE Tail(data.payload)
             IN  [raised |-> IF asserts /\ rest # <<>> THEN "AssertionError" ELSE "",
                  kwargs |-> <<StripDigit(<<f.name, f.digit>>), value>>]

\* MachineStatusModel._deserialize: cls(**kwargs) on what
\* _deserialize_asdict returned; param is what _asdict() has besides the
\* code, a field that is None being left out of it.
MachineStatusModel_deserialize(data, asserts) ==
    LET d == CodeSwitch_deserialize_asdict(data, asserts)
    IN  IF d.raised # "" THEN [raised |-> d.raised, model |-> <<>>]
        ELSE IF d.kwargs # <<>> /\ d.kwargs[1] \notin StatusFieldNames
        THEN [raised |-> "TypeError", model |-> <<>>]
        ELSE [raised |-> "",
              model |-> [code |-> StatusCodeRead(data.code),
                         param |-> IF d.kwargs = <<>> \/ d.kwargs[2] = NoNumber
                                   THEN <<>>
                                   ELSE <<d.kwargs[1][1], d.kwargs[2]>>]]

\* _on_machine_status(data) on the bytes of a notification; an exception of
\* _deserialize leaves the callback before it touched anything.
OnMachineStatus(data, asserts) ==
    /\ connected
    /\ LET d == MachineStatusModel_deserialize(data, asserts)
       IN  /\ notify' = [data |-> data,
                          raised |-> IF d.raised = "" /\ StatusRaises(d.model)
                                     THEN "KeyError" ELSE d.raised]
           /\ auth' = IF d.raised # "" THEN auth ELSE StatusAuth(auth, d.model)
           /\ calls' = StatusCalls(calls, data)
           /\ last' = Step("machine_status", data.code,
                           IF d.raised # "" THEN <<>> ELSE StatusEvents(d.model),
                           IdleCall)
    /\ UNCHANGED <<ncalls, connected, subscribed, indicate, fut, mq,
                   prev, result, facade, func>>

(* ---------------------------------------------------------------------- *)
(* FitnessMachine (client/client.py)                                       *)
(* ---------------------------------------------------------------------- *)

\* connect() on a machine that is not connected: the latch is set and
\* _connect establishes the connection and subscribes the controller (the
\* training status is read and passed on as an event) and the updater.
Connect ==
    /\ ~connected
    /\ need_connect' = TRUE
    /\ connected' = TRUE
    /\ subscribed' = TRUE
    /\ last' = Step("connect", 0,
                    IF subscribed THEN <<>> ELSE <<TrainingStatusEvent(TS_IDLE)>>,
                    IdleCall)
    /\ prev' = updater_reset.prev
    /\ result' = updater_reset.result
    /\ notify' = NoNotification
    /\ session' = Len(history)
    /\ UNCHANGED <<ncalls, auth, indicate, fut, calls, mq, manager, func>>

\* What _on_disconnect does to a suspended call and its future f: nothing
\* but that the BleakClient the call holds is disconnected.
DropCall(c, f) ==
    [c EXCEPT !.cli = FALSE, !.lost = @ \/ (c.pc = "await" /\ ~FutDone(f))]

\* The transport drops: _on_disconnect resets the controller.  Requests the
\* machine has not answered are lost with the connection.
Disconnect ==
    /\ connected
    /\ connected' = FALSE
    /\ subscribed' = reset.subscribed
    /\ auth' = reset.auth
    /\ calls' = [p \in Calls |-> DropCall(calls[p], fut[p])]
    /\ mq' = <<>>
    /\ prev' = updater_reset.prev
    /\ result' = updater_reset.result
    /\ last' = Step("disconnect", 0, <<>>, IdleCall)
    /\ UNCHANGED <<ncalls, indicate, fut, notify, facade, func>>

\* The controller as the updater's specifications leave it.
controller == <<auth, subscribed, indicate, fut, calls, mq, ncalls>>

\* A realtime data notification arrives: _on_notify(data).
OnNotify(data) ==
    /\ connected
    /\ LET r == on_notify(prev, result, data)
       IN  /\ prev' = r.prev
           /\ result' = r.result
           /\ notify' = [data |-> data, raised |-> r.raised, fresh |-> prev = Empty]
           /\ last' = Step("notify", 0, r.events, IdleCall)
    /\ UNCHANGED <<connected, controller, facade, func>>

\* set_setting(setting_id, *args), the body of the typed set commands: a
\* setting the machine does not support returns NOT_SUPPORTED, a call
\* without a value raises, and any other is handed to write_command with the
\* value, or the tuple of several, under the name of the setting.
SetSetting(p, id, args) ==
    IF id \notin supported_settings(m_settings) \/ args = <<>>
    THEN /\ calls[p].pc = "idle"
         /\ last' = Step("set_setting", p, <<>>,
                         End([IdleCall EXCEPT !.kwargs = <<id[1], args>>],
                             IF id \notin supported_settings(m_settings)
                             THEN Return(NOT_SUPPORTED) ELSE Raise("ValueError")))
         /\ UNCHANGED <<ncalls, connected, auth, subscribed, indicate, fut, calls,
                        mq, updater, facade, func>>
    ELSE Call(p, << <<>>, <<id[1], IF Len(args) = 1 THEN args[1] ELSE args>> >>)

\* The callback of the updater and the controller, _on_event(e), is called.
OnEvent(e) ==
    /\ Len(history) < MaxEvents
    /\ history' = Append(history, e)
    /\ LET r == on_event(e, properties, settings)
       IN  /\ properties' = r.properties
           /\ settings' = r.settings
    /\ live_properties' = live_update(e, live_properties)
    /\ last' = Step("event", 0, <<e>>, IdleCall)
    /\ UNCHANGED <<connected, controller, updater, m_settings, session,
                   need_connect, func>>

\* A facade whose commands reconnect whatever the latch says.
AlwaysReconnects(need, conn) == IF conn THEN "write" ELSE "connect"

\* _write_command, lines 270-277, and the guard of _connect, line 223: with
\* the latch clear the command returns FAILED; with the latch set it goes to
\* write_command, after _connect has run when the client is not connected.
WriteCommandPath(need, conn) ==
    IF ~need THEN "failed" ELSE IF conn THEN "write" ELSE "connect"

\* disconnect(): the latch is cleared and the client asked to disconnect;
\* the transport calls _on_disconnect (Disconnect) when it has dropped.
UserDisconnect ==
    /\ need_connect
    /\ need_connect' = FALSE
    /\ last' = Step("user_disconnect", 0, <<>>, IdleCall)
    /\ UNCHANGED <<connected, controller, updater, manager, session, func>>

\* connect() on a connected machine: the latch is set, _connect returns at
\* line 224.
Reconnect ==
    /\ connected
    /\ ~need_connect
    /\ need_connect' = TRUE
    /\ last' = Step("connect", 0, <<>>, IdleCall)
    /\ UNCHANGED <<connected, controller, updater, manager, session, func>>

\* One of reset(), start_resume(), stop(), pause() and the set commands of a
\* supported setting, _write_command(code, **kwargs), called with the latch
\* clear.
CommandFailed(p, cmd) ==
    /\ WriteCommandPath(need_connect, connected) = "failed"
    /\ calls[p].pc = "idle"
    /\ last' = Step("command", p, <<>>,
                    End([IdleCall EXCEPT !.code = cmd[1], !.kwargs = cmd[2]],
                        Return(FAILED)))
    /\ UNCHANGED <<connected, controller, updater, facade, func>>

\* The same called with the latch set on a client that is connected.
CommandWrite(p, cmd) ==
    /\ WriteCommandPath(need_connect, connected) = "write"
    /\ Call(p, cmd)

\* The same called with the latch set after the transport has dropped:
\* _connect establishes the connection and subscribes the controller and the
\* updater, then write_command creates its future and schedules its write.
CommandConnect(p, cmd) ==
    /\ WriteCommandPath(need_connect, connected) = "connect"
    /\ calls[p].pc = "idle"
    /\ ncalls < MaxCalls
    /\ ncalls' = ncalls + 1
    /\ connected' = TRUE
    /\ subscribed' = TRUE
    /\ prev' = updater_reset.prev
    /\ result' = updater_reset.result
    /\ notify' = NoNotification
    /\ session' = Len(history)
    /\ LET c == [IdleCall EXCEPT
                    !.frame = IF NeedsRequestControl(auth, cmd[1])
                              THEN "inner" ELSE "outer",
                    !.code = cmd[1], !.kwargs = cmd[2], !.cli = TRUE]
           b == Begin(p, c, TRUE)
       IN  /\ calls' = [calls EXCEPT ![p] = b.call]
           /\ fut' = [fut EXCEPT ![p] = b.fut]
           /\ indicate' = b.indicate
    /\ last' = Step("connect", p,
                    IF subscribed THEN <<>> ELSE <<TrainingStatusEvent(TS_IDLE)>>,
                    IdleCall)
    /\ UNCHANGED <<auth, mq, manager, need_connect, func>>

\* One task calls write_command, each call after the one before has ended.
Next ==
    \/ Connect
    \/ Disconnect
    \/ \E p \in SerialCalls, cmd \in Commands : Call(p, cmd)
    \/ \E p \in SerialCalls : SubscribeDone(p)
    \/ \E p \in SerialCalls : SubscribeFail(p)
    \/ \E p \in SerialCalls : WriteOk(p)
    \/ \E p \in SerialCalls : WriteFail(p)
    \/ \E r \in ResultCodes : Indicate(r)
    \/ \E p \in SerialCalls : Resume(p)
    \/ \E p \in SerialCalls : Timeout(p)
    \/ \E m \in StatusNotifications : MachineStatus(m)

Spec == Init /\ [][Next]_vars

\* Two tasks call write_command, neither waiting for the other, on a machine
\* that sends no status notifications meanwhile.
NextConcurrent ==
    \/ Connect
    \/ Disconnect
    \/ \E p \in Calls, cmd \in ConcurrentCommands : Call(p, cmd)
    \/ \E p \in Calls : SubscribeDone(p)
    \/ \E p \in Calls : SubscribeFail(p)
    \/ \E p \in Calls : WriteOk(p)
    \/ \E p \in Calls : WriteFail(p)
    \/ \E r \in ConcurrentResults : Indicate(r)
    \/ \E p \in Calls : Resume(p)
    \/ \E p \in Calls : Timeout(p)

SpecConcurrent == Init /\ [][NextConcurrent]_vars

\* The realtime data characteristic alone: the machine connects, notifies
\* and drops, and nobody writes to the control point.
NextUpdater ==
    \/ Connect
    \/ Disconnect
    \/ \E data \in Notifications : OnNotify(data)

SpecUpdater == Init /\ [][NextUpdater]_vars

\* The commands of a session: control is requested, the machine is reset.
SessionCommands == { <<<<REQUEST_CONTROL>>, <<>> >>, <<<<RESET>>, <<>> >> }

\* The notifications of a session: average speed with more data to come,
\* instantaneous speed closing it, and both in one closing record.
SessionNotifications ==
    { [mask |-> 3, vals |-> <<1>>], [mask |-> 0, vals |-> <<1>>],
      [mask |-> 2, vals |-> <<0, 1>>] }

\* A session: one task writes commands the machine accepts while realtime
\* data arrives, until the transport drops.
NextSession ==
    \/ Connect
    \/ Disconnect
    \/ \E data \in SessionNotifications : OnNotify(data)
    \/ \E p \in SerialCalls, cmd \in SessionCommands : Call(p, cmd)
    \/ \E p \in SerialCalls : WriteOk(p)
    \/ Indicate(SUCCESS)
    \/ \E p \in SerialCalls : Resume(p)

SpecSession == Init /\ [][NextSession]_vars

\* The machine-status characteristic alone: the machine connects, reports
\* its status and drops, and nobody writes to the control point.
NextStatus ==
    \/ Connect
    \/ Disconnect
    \/ \E data \in StatusWire, asserts \in BOOLEAN : OnMachineStatus(data, asserts)

SpecStatus == Init /\ [][NextStatus]_vars

\* The typed set commands on a machine with any settings bitmap: one task
\* calls them, the machine accepts what reaches it.
InitSettings == \E m \in SettingsBitmaps : InitState(m)

NextSettings ==
    \/ Connect
    \/ Disconnect
    \/ \E p \in SerialCalls, c \in SettingCalls : SetSetting(p, c[1], c[2])
    \/ \E p \in SerialCalls : WriteOk(p)
    \/ Indicate(SUCCESS)
    \/ \E p \in SerialCalls : Resume(p)

SpecSettings == InitSettings /\ [][NextSettings]_vars

\* The facade's callback alone, called with any events in any order.
NextFacade == \E e \in FtmsEvents : OnEvent(e)

SpecFacade == Init /\ [][NextFacade]_vars

\* Events of the sessions of SpecLive: updates of one field each, with a zero
\* or another value, and an event that is no update.
LiveEvents ==
    { UpdateEvent(d) :
        d \in UNION {[{k} -> Values] : k \in {DataFields[1], DataFields[2]}} }
    \cup {TrainingStatusEvent(TS_IDLE)}

\* Sessions of the facade: it connects, its callback is called while the
\* connection stands, the connection drops, and it connects again.
NextLive ==
    \/ Connect
    \/ Disconnect
    \/ \E e \in LiveEvents : connected /\ OnEvent(e)

SpecLive == Init /\ [][NextLive]_vars

\* The commands written while the machine sends indications of its own.
IndicateCommands == { <<<<REQUEST_CONTROL>>, <<>> >>, <<<<RESET>>, <<>> >> }

\* The control point of a machine that answers requests and also sends
\* indications nobody asked for: one task calls write_command.
NextIndicate ==
    \/ Connect
    \/ Disconnect
    \/ \E p \in SerialCalls, cmd \in IndicateCommands : Call(p, cmd)
    \/ \E p \in SerialCalls : WriteOk(p)
    \/ \E r \in ConcurrentResults : Indicate(r)
    \/ \E data \in ControlPointBytes : OnIndicate(data)
    \/ \E p \in SerialCalls : Resume(p)
    \/ \E p \in SerialCalls : Timeout(p)

SpecIndicate == Init /\ [][NextIndicate]_vars

\* The commands of the facade whose latch C39 is about.
LatchCommands ==
    { <<<<RESET>>, <<>> >>, <<<<START_RESUME>>, <<>> >>,
      << <<>>, <<"stop_pause", SP_STOP>> >>, << <<>>, <<"stop_pause", SP_PAUSE>> >> }
    \cup { << <<>>, <<"target_speed", v>> >> : v \in Speeds }

\* The facade with its latch: the user connects and disconnects, the
\* transport drops, and one task calls commands the machine accepts.
NextCommands ==
    \/ Connect
    \/ Reconnect
    \/ UserDisconnect
    \/ Disconnect
    \/ \E p \in SerialCalls, cmd \in LatchCommands : CommandFailed(p, cmd)
    \/ \E p \in SerialCalls, cmd \in LatchCommands : CommandWrite(p, cmd)
    \/ \E p \in SerialCalls, cmd \in LatchCommands : CommandConnect(p, cmd)
    \/ \E p \in SerialCalls : WriteOk(p)
    \/ Indicate(SUCCESS)
    \/ \E p \in SerialCalls : Resume(p)

SpecCommands == Init /\ [][NextCommands]_vars

(* ---------------------------------------------------------------------- *)
(* The feature and range reader (client/properties/features.py)            *)
(*                                                                          *)
(* The repository holds the module twice: in the src layout                 *)
(* (src/pyftms/client/properties/features.py) and in the flat layout        *)
(* (pyftms/client/properties/features.py, the directory of client.py).      *)
(* The two differ, and both are modelled.                                   *)
(* ---------------------------------------------------------------------- *)

\* MachineType: the value of each flag.
MachineType ==
    [TREADMILL |-> 1, CROSS_TRAINER |-> 2, STEP_CLIMBER |-> 4,
     STAIR_CLIMBER |-> 8, ROWER |-> 16, INDOOR_BIKE |-> 32]

\* MachineSettings: the bit of each of the first six flags.
MachineSettings ==
    [SPEED |-> 0, INCLINE |-> 1, RESISTANCE |-> 2, POWER |-> 3,
     HEART_RATE |-> 4, ENERGY |-> 5]

\* The bits set in a bitmap of MachineSettings, which has 17 flags, and the
\* bitmap of a set of bits.
BitsOf(mask) == {i \in 0..16 : Bit(mask, i) = 1}

RECURSIVE MaskOf(_)
MaskOf(bits) ==
    IF bits = {} THEN 0
    ELSE LET b == CHOOSE x \in bits : TRUE IN 2^b + MaskOf(bits \ {b})

\* The settings with a range characteristic, in the order they are read:
\* the bit of the setting and the name its range is stored under.
RangedSettings ==
    << [bit |-> MachineSettings.SPEED, name |-> "target_speed"],
       [bit |-> MachineSettings.INCLINE, name |-> "target_inclination"],
       [bit |-> MachineSettings.RESISTANCE, name |-> "target_resistance"],
       [bit |-> MachineSettings.POWER, name |-> "target_power"],
       [bit |-> MachineSettings.HEART_RATE, name |-> "target_heart_rate"] >>

\* read_supported_ranges(cli, bitmap), flat layout, and the reads of
\* _read_range in the src layout: the range of each ranged setting the
\* bitmap advertises whose characteristic the device has, under the name of
\* the setting (chars: the range each characteristic present holds).
read_supported_ranges(bitmap, chars) ==
    [k \in {RangedSettings[i].name :
              i \in {j \in DOMAIN RangedSettings :
                        /\ Bit(bitmap, RangedSettings[j].bit) = 1
                        /\ RangedSettings[j].name \in DOMAIN chars}} |-> chars[k]]

\* read_features(cli, mt), src layout, on a device whose feature
\* characteristic holds the settings bitmap raw: the untypical settings are
\* removed (settings &= ~(...), the first branch whose flag is in mt), then
\* each ranged setting advertised has its range read, or its bit cleared
\* when the device has no such characteristic.
read_features(mt, raw, chars) ==
    LET S == MachineSettings
        in(flag) == (mt \div flag) % 2 = 1
        untypical ==
            IF in(MachineType.TREADMILL) THEN {S.RESISTANCE, S.POWER}
            ELSE IF in(MachineType.CROSS_TRAINER) THEN {S.SPEED, S.INCLINE}
            ELSE IF in(MachineType.INDOOR_BIKE) THEN {S.SPEED, S.INCLINE}
            ELSE IF in(MachineType.ROWER) THEN {S.SPEED, S.INCLINE}
            ELSE {}
        typical == MaskOf(BitsOf(raw) \ untypical)
        absent == {RangedSettings[i].bit :
                     i \in {j \in DOMAIN RangedSettings :
                               /\ Bit(typical, RangedSettings[j].bit) = 1
                               /\ RangedSettings[j].name \notin DOMAIN chars}}
    IN  [typical |-> typical,
         settings |-> MaskOf(BitsOf(typical) \ absent),
         ranges |-> read_supported_ranges(typical, chars)]

\* read_features(cli, mt) followed by read_supported_ranges(cli, settings),
\* flat layout: other settings are untypical for the indoor bike and the
\* rower, and the bitmap is not touched after the ranges are read.
flat_read_features(mt, raw, chars) ==
    LET S == MachineSettings
        in(flag) == (mt \div flag) % 2 = 1
        untypical ==
            IF in(MachineType.TREADMILL) THEN {S.RESISTANCE, S.POWER}
            ELSE IF in(MachineType.CROSS_TRAINER) THEN {S.SPEED, S.INCLINE}
            ELSE IF in(MachineType.INDOOR_BIKE) THEN {S.INCLINE, S.RESISTANCE}
            ELSE IF in(MachineType.ROWER) THEN {S.SPEED, S.INCLINE, S.RESISTANCE}
            ELSE {}
        typical == MaskOf(BitsOf(raw) \ untypical)
    IN  [typical |-> typical,
         settings |-> typical,
         ranges |-> read_supported_ranges(typical, chars)]

\* The machine types, the settings bitmaps and the range characteristics of
\* the devices read.
FeatureDevices ==
    [mt : {MachineType[k] : k \in DOMAIN MachineType},
     raw : {MaskOf(b) : b \in SUBSET {MachineSettings[k] : k \in DOMAIN MachineSettings}},
     chars : UNION {[ns -> {<<0, 2, 1>>}] :
                      ns \in SUBSET {RangedSettings[i].name : i \in DOMAIN RangedSettings}}]

\* The features and ranges of a device are read, by either module.
ReadFeatures(layout, d) ==
    /\ called' = [fn |-> "read_features", layout |-> layout, device |-> d]
    /\ returned' = IF layout = "src" THEN read_features(d.mt, d.raw, d.chars)
                   ELSE flat_read_features(d.mt, d.raw, d.chars)
    /\ UNCHANGED <<connected, controller, last, updater, facade>>

(* ---------------------------------------------------------------------- *)
(* The advertisement parser (client/properties/machine_type.py), which the  *)
(* repository also holds in both layouts                                    *)
(* ---------------------------------------------------------------------- *)

\* A call that returned a value, and one that raised.
Returned(v) == [raised |-> "", value |-> v]
Raised(exc) == [raised |-> exc, value |-> 0]

\* MachineFlags(flags) and MachineType(mt) of the bytes of the service data,
\* and the test that follows.  Both are Flag classes, strict at their
\* boundary: a bit that is no member raises ValueError, caught and raised
\* again as NotFitnessMachineError.  MachineFlags has the one member
\* FITNESS_MACHINE, MachineType the six members above.
FlagsAndType(flags, mt) ==
    IF flags > 1 \/ mt > 63 THEN Raised("NotFitnessMachineError")
    ELSE IF flags # 0 /\ mt # 0 THEN Returned(mt)
    ELSE Raised("NotFitnessMachineError")

\* get_machine_type_from_service_data(adv_data), src layout, on the FTMS
\* service data of the advertisement (data.present: there is any).
get_machine_type_from_service_data(data) ==
    IF ~data.present \/ ~(2 <= Len(data.bytes) /\ Len(data.bytes) <= 3)
    THEN Raised("NotFitnessMachineError")
    ELSE FlagsAndType(data.bytes[1],
                      MaskOf(UNION {BitsOf(data.bytes[i]) : i \in 2..Len(data.bytes)}))

\* get_machine_type_from_service_data(adv_data), flat layout.
flat_get_machine_type_from_service_data(data) ==
    IF ~data.present \/ Len(data.bytes) # 3
    THEN Raised("NotFitnessMachineError")
    ELSE FlagsAndType(data.bytes[1],
                      MaskOf(BitsOf(data.bytes[2]) \cup BitsOf(data.bytes[3])))

\* The service data of the advertisements parsed: none, or up to four bytes,
\* each with no bit, one or two type bits, the last type bit, or a bit that
\* is no machine type.
ServiceData ==
    {[present |-> FALSE, bytes |-> <<>>]}
    \cup [present : {TRUE},
          bytes : UNION {[1..n -> {0, 1, 2, 3, 32, 64}] : n \in 0..4}]

\* The machine type of an advertisement is taken, by either module.
GetMachineType(layout, data) ==
    /\ called' = [fn |-> "get_machine_type", layout |-> layout, data |-> data]
    /\ returned' = IF layout = "src" THEN get_machine_type_from_service_data(data)
                   ELSE flat_get_machine_type_from_service_data(data)
    /\ UNCHANGED <<connected, controller, last, updater, facade>>

(* ---------------------------------------------------------------------- *)
(* NumSerializer (serializer/num.py)                                       *)
(*                                                                          *)
(* A stream is the sequence of its bytes not yet read.  A number is None,   *)
(* the int k ("int", no digits), or a float: the double nearest the decimal *)
(* k * 10^-digits ("literal", what a caller writes), or the double the      *)
(* product of the int k and the double of 10^-digits rounds to ("product",  *)
(* what _deserialize computes).                                             *)
(* ---------------------------------------------------------------------- *)

None == [kind |-> "None"]
Num(k, digits, how) == [kind |-> "number", k |-> k, digits |-> digits, how |-> how]

\* The formats: "u" or "s", the size in bytes and the digits of the factor
\* (u2.01 is unsigned, 2 bytes, factor 0.01: 2 digits; u2 has no factor).
NumFormats == [sign : BOOLEAN, size : 1..3, digits : 0..2]

\* A sentinel that is all ones whatever the sign.
NoneUnsigned(fmt) == 2^(8 * fmt.size) - 1

\* self.none = (1 << (8 * self.size - self.sign)) - 1
none(fmt) == 2^(8 * fmt.size - (IF fmt.sign THEN 1 ELSE 0)) - 1

\* int.from_bytes(data, "little", signed=sign)
RECURSIVE from_bytes(_, _)
from_bytes(data, sign) ==
    IF data = <<>> THEN 0
    ELSE IF sign /\ data[Len(data)] >= 128
    THEN from_bytes(data, FALSE) - 2^(8 * Len(data))
    ELSE data[1] + 256 * from_bytes(Tail(data), FALSE)

\* int(value).to_bytes(size, "little", signed=sign), for a value in range.
to_bytes(value, size, sign) ==
    LET v == IF value < 0 THEN value + 2^(8 * size) ELSE value
    IN  [i \in 1..size |-> (v \div 2^(8 * (i - 1))) % 256]

\* Binary64 arithmetic, for |k| <= 10 and one or two digits: the quotient of
\* the double nearest k * 10^-digits by the double of 10^-digits is below k
\* in magnitude (0.3 / 0.1 is 2.9999999999999996), and the product of k and
\* the double of 10^-digits is another double than the one nearest
\* k * 10^-digits (3 * 0.1 is 0.30000000000000004).
QuotientShort(k, digits) == digits = 1 /\ k \in {-7, -6, -3, 3, 6, 7}
ProductOff(k, digits) == digits = 1 /\ k \in {-7, -6, -3, 3, 6, 7}

\* NumSerializer(fmt)._deserialize(stream): the number read and the stream
\* left, or EOFError.
NumSerializer_deserialize(fmt, stream) ==
    IF Len(stream) < fmt.size
    THEN [raised |-> "EOFError", value |-> None, stream |-> <<>>]
    ELSE LET value == from_bytes(SubSeq(stream, 1, fmt.size), fmt.sign)
         IN  [raised |-> "",
              value |-> IF value = none(fmt) THEN None
                        ELSE IF fmt.digits # 0 THEN Num(value, fmt.digits, "product")
                        ELSE Num(value, 0, "int"),
              stream |-> SubSeq(stream, fmt.size + 1, Len(stream))]

\* NumSerializer(fmt).serialize(stream, value), for None and for a number
\* of the digits of the format: the bytes written.  int() truncates the
\* quotient towards zero, and to_bytes raises OverflowError for a negative
\* number in an unsigned format.
NumSerializer_serialize(fmt, value) ==
    LET n == IF value = None THEN none(fmt)
             ELSE IF fmt.digits # 0 /\ QuotientShort(value.k, fmt.digits)
             THEN (IF value.k > 0 THEN value.k - 1 ELSE value.k + 1)
             ELSE value.k
    IN  IF n < (IF fmt.sign THEN -(2^(8 * fmt.size - 1)) ELSE 0)
        THEN [raised |-> "OverflowError", written |-> <<>>]
        ELSE [raised |-> "", written |-> to_bytes(n, fmt.size, fmt.sign)]

\* The bytes the streams read are made of.
Bytes == {0, 1, 3, 127, 128, 255}

\* deserialize(data) of a serializer on up to three bytes.
NumDeserialize(fmt, data) ==
    /\ called' = [fn |-> "NumSerializer.deserialize", fmt |-> fmt, data |-> data]
    /\ returned' = NumSerializer_deserialize(fmt, data)
    /\ UNCHANGED <<connected, controller, last, updater, facade>>

\* serialize(stream, value) of a serializer on an empty stream, with None or
\* a number k * 10^-digits of the digits of the format.
NumSerialize(fmt, value) ==
    /\ called' = [fn |-> "NumSerializer.serialize", fmt |-> fmt, value |-> value]
    /\ returned' = NumSerializer_serialize(fmt, value)
    /\ UNCHANGED <<connected, controller, last, updater, facade>>

(* ---------------------------------------------------------------------- *)
(* RealtimeData on the wire (models/realtime_data, serializer/model.py)     *)
(* ---------------------------------------------------------------------- *)

\* The serialised fields of TreadmillData in declaration order, those of
\* RealtimeSpeedData first.  A field is a number, or a model with leaves of
\* its own; a leaf has a format and the first type of its annotation, and a
\* model says whether its fields have defaults (only those of
\* ElevationGainData have none).
TreadmillData ==
    LET Leaf(name, sign, size, digits, type) ==
            [name |-> name, type |-> type,
             fmt |-> [sign |-> sign, size |-> size, digits |-> digits]]
        Number(leaf) ==
            [name |-> leaf.name, model |-> FALSE, defaults |-> TRUE, leaves |-> <<leaf>>]
        Model(name, defaults, leaves) ==
            [name |-> name, model |-> TRUE, defaults |-> defaults, leaves |-> leaves]
    IN  << Number(Leaf("speed_instant", FALSE, 2, 2, "float")),
           Number(Leaf("speed_average", FALSE, 2, 2, "float")),
           Number(Leaf("distance_total", FALSE, 3, 0, "int")),
           Model("inclination", TRUE,
                 << Leaf("inclination", TRUE, 2, 1, "float"),
                    Leaf("ramp_angle", TRUE, 2, 1, "float") >>),
           Model("elevation_gain", FALSE,
                 << Leaf("elevation_gain_positive", FALSE, 2, 1, "int"),
                    Leaf("elevation_gain_negative", FALSE, 2, 1, "int") >>),
           Number(Leaf("pace_instant", FALSE, 1, 1, "float")),
           Number(Leaf("pace_average", FALSE, 1, 1, "float")),
           Model("energy", TRUE,
                 << Leaf("energy_total", FALSE, 2, 0, "int"),
                    Leaf("energy_per_hour", FALSE, 2, 0, "int"),
                    Leaf("energy_per_minute", FALSE, 1, 0, "int") >>),
           Number(Leaf("heart_rate", FALSE, 1, 0, "int")),
           Number(Leaf("metabolic_equivalent", FALSE, 1, 1, "float")),
           Number(Leaf("time_elapsed", FALSE, 2, 0, "int")),
           Number(Leaf("time_remaining", FALSE, 2, 0, "int")),
           Model("force_on_belt", TRUE,
                 << Leaf("force_on_belt", TRUE, 2, 0, "int"),
                    Leaf("power_output", TRUE, 2, 0, "int") >>),
           Number(Leaf("step_count", FALSE, 3, 0, "int")) >>

\* BaseModel._deserialize_asdict on the fields of a nested model: every
\* field is read; None is left out, and a number is passed through the first
\* type of the annotation, so an int field with a factor keeps the whole
\* part (the formats of such fields are unsigned).
RECURSIVE BaseModel_deserialize_asdict(_, _)
BaseModel_deserialize_asdict(leaves, stream) ==
    IF leaves = <<>>
    THEN [raised |-> "", kwargs |-> Empty, stream |-> stream]
    ELSE LET field == Head(leaves)
             r == NumSerializer_deserialize(field.fmt, stream)
             value == IF r.value # None /\ field.type = "int"
                      THEN Num(r.value.k \div 10^r.value.digits, 0, "int")
                      ELSE r.value
             rest == BaseModel_deserialize_asdict(Tail(leaves), r.stream)
         IN  IF r.raised # ""
             THEN [raised |-> r.raised, kwargs |-> Empty, stream |-> <<>>]
             ELSE IF rest.raised # "" \/ value = None
             THEN rest
             ELSE [rest EXCEPT !.kwargs = Merge([k \in {field.name} |-> value], @)]

\* serializer.deserialize(src) for a top-level field, as the items it leaves
\* in the flattened dict.  A number is kept unless it is None.  A model is
\* BaseModel._deserialize, cls(**kwargs): a field without a default that the
\* kwargs lack is a TypeError.
Field_deserialize(field, stream) ==
    IF field.model
    THEN LET r == BaseModel_deserialize_asdict(field.leaves, stream)
         IN  IF r.raised = "" /\ ~field.defaults
                /\ \E i \in 1..Len(field.leaves) : field.leaves[i].name \notin DOMAIN r.kwargs
             THEN [raised |-> "TypeError", kwargs |-> Empty, stream |-> <<>>]
             ELSE r
    ELSE LET r == NumSerializer_deserialize(field.leaves[1].fmt, stream)
         IN  [raised |-> r.raised, stream |-> r.stream,
              kwargs |-> IF r.value = None THEN Empty
                         ELSE [k \in {field.name} |-> r.value]]

\* The loop of RealtimeData._deserialize_asdict: the fields in order, one
\* bit each, up to the last bit set.
RECURSIVE RealtimeData_fields(_, _, _)
RealtimeData_fields(fields, mask, stream) ==
    IF fields = <<>> \/ mask = 0
    THEN [raised |-> "", kwargs |-> Empty, stream |-> stream]
    ELSE LET r == IF mask % 2 = 1 THEN Field_deserialize(Head(fields), stream)
                  ELSE [raised |-> "", kwargs |-> Empty, stream |-> stream]
             rest == RealtimeData_fields(Tail(fields), mask \div 2, r.stream)
         IN  IF r.raised # "" THEN r
             ELSE IF rest.raised # "" THEN rest
             ELSE [rest EXCEPT !.kwargs = Merge(r.kwargs, @)]

\* get_serializer(cls).deserialize(data)._asdict() for a RealtimeData class:
\* the flags word is read as a u2 number, so FF FF is None and `mask ^= 1` a
\* TypeError; bit 0 is inverted; the stream must be exhausted where asserts
\* are compiled in.
RealtimeData_deserialize(fields, data, asserts) ==
    LET m == NumSerializer_deserialize([sign |-> FALSE, size |-> 2, digits |-> 0], data)
        mask == IF m.value.k % 2 = 1 THEN m.value.k - 1 ELSE m.value.k + 1
        r == RealtimeData_fields(fields, mask, m.stream)
    IN  IF m.raised # "" THEN [raised |-> m.raised, value |-> Empty]
        ELSE IF m.value = None THEN [raised |-> "TypeError", value |-> Empty]
        ELSE IF r.raised # "" THEN [raised |-> r.raised, value |-> Empty]
        ELSE IF asserts /\ r.stream # <<>> THEN [raised |-> "AssertionError", value |-> Empty]
        ELSE [raised |-> "", value |-> r.kwargs]

\* Realtime payloads of a treadmill: a flags word announcing some of five of
\* the fields (and bit 14, which no field has), each leaf 12 or the sentinel
\* of its format, whole, one byte short or one byte long; and the flags
\* word FF FF alone.
RealtimePayloads ==
    LET Announced == {1, 2, 4, 5, 13}
        Leaves(f) == TreadmillData[f].leaves
        RECURSIVE LeafBytes(_), Body(_, _)
        LeafBytes(leaves) ==
            IF leaves = <<>> THEN {<<>>}
            ELSE {to_bytes(v, Head(leaves).fmt.size, FALSE) \o rest :
                     v \in {12, none(Head(leaves).fmt)}, rest \in LeafBytes(Tail(leaves))}
        Body(f, set) ==
            IF f > Len(TreadmillData) THEN {<<>>}
            ELSE IF f \in set
            THEN {a \o b : a \in LeafBytes(Leaves(f)), b \in Body(f + 1, set)}
            ELSE Body(f + 1, set)
        Flags(set, high) ==
            LET word == MaskOf({f - 1 : f \in set}) + high
            IN  to_bytes(IF word % 2 = 1 THEN word - 1 ELSE word + 1, 2, FALSE)
        Whole == UNION {{Flags(set, high) \o body : body \in Body(1, set)} :
                           set \in SUBSET Announced, high \in {0, 2^14}}
    IN  Whole \cup {SubSeq(w, 1, Len(w) - 1) : w \in Whole}
              \cup {w \o <<0>> : w \in Whole} \cup {<<255, 255>>}

\* A realtime notification decoded as the updater decodes it (updater.py
\* line 42), by a build with or without asserts.
RealtimeDeserialize(data, asserts) ==
    /\ called' = [fn |-> "RealtimeData.deserialize", data |-> data, asserts |-> asserts]
    /\ returned' = RealtimeData_deserialize(TreadmillData, data, asserts)
    /\ UNCHANGED <<connected, controller, last, updater, facade>>

(* ---------------------------------------------------------------------- *)
(* Code-switched records on the wire (models/common.py)                     *)
(* ---------------------------------------------------------------------- *)

\* The format of the metadata of a field of MachineStatusModel, for the
\* fields with a decimal factor or none.
StatusFormat(name) ==
    CASE name = "stop_pause" -> [sign |-> FALSE, size |-> 1, digits |-> 0]
      [] name = "target_speed" -> [sign |-> FALSE, size |-> 2, digits |-> 2]
      [] name = "target_power" -> [sign |-> TRUE, size |-> 2, digits |-> 0]
      [] name = "target_time" -> [sign |-> FALSE, size |-> 2, digits |-> 0]

\* MachineStatusModel._deserialize(src)._asdict() on bytes: the code is a
\* u1 number; the first field whose code metadata equals it is read, a
\* number by its NumSerializer, a list as a generator that reads nothing;
\* the stream must then be exhausted where asserts are compiled in; the
\* constructor takes the field under its stripped name; None is left out of
\* the dict.
CodeSwitchModel_deserialize(data, asserts) ==
    LET code == NumSerializer_deserialize(StatusFormat("stop_pause"), data)
        fs == {i \in DOMAIN StatusFields :
                  code.value # None /\ StatusFields[i].code = code.value.k}
        f == StatusFields[CHOOSE i \in fs : \A j \in fs : i <= j]
        r == IF fs = {} \/ f.num > 0
             THEN [raised |-> "", value |-> None, stream |-> code.stream]
             ELSE NumSerializer_deserialize(StatusFormat(f.name), code.stream)
        dict == [k \in (IF code.value = None THEN {} ELSE {"code"})
                        \cup (IF r.value = None THEN {} ELSE {f.name})
                   |-> IF k = "code" THEN code.value ELSE r.value]
    IN  IF code.raised # "" THEN [raised |-> code.raised, value |-> Empty]
        ELSE IF r.raised # "" THEN [raised |-> r.raised, value |-> Empty]
        ELSE IF asserts /\ r.stream # <<>> THEN [raised |-> "AssertionError", value |-> Empty]
        ELSE IF fs # {} /\ StripDigit(<<f.name, f.digit>>) \notin StatusFieldNames
        THEN [raised |-> "TypeError", value |-> Empty]
        ELSE [raised |-> "", value |-> dict]

\* Machine-status notifications as bytes: a code without a parameter, with
\* a number or with a list of one or two numbers, or the byte FF, followed
\* by up to five bytes.
StatusBytes ==
    {<<c>> \o body :
        c \in {MS_RESET, MS_STOP_PAUSE, MS_SPEED, MS_POWER, MS_TIME_1, MS_TIME_2, 255},
        body \in UNION {[1..n -> {0, 105, 255}] : n \in 0..5}}

\* A machine-status notification decoded as _on_machine_status decodes it
\* (controller.py line 230), by a build with or without asserts.
StatusDeserialize(data, asserts) ==
    /\ called' = [fn |-> "CodeSwitchModel.deserialize", data |-> data, asserts |-> asserts]
    /\ returned' = CodeSwitchModel_deserialize(data, asserts)
    /\ UNCHANGED <<connected, controller, last, updater, facade>>

(* ---------------------------------------------------------------------- *)
(* Control requests with a target_time (models/control_point.py)            *)
(* ---------------------------------------------------------------------- *)

\* A __post_init__ that takes a target_time of any length for TIME_1.
AnyLength(value) == [raised |-> "", code |-> 13, field |-> value]

\* ControlModel(code=None, target_time=value).__post_init__: the length
\* must be in VALID_TIME_LENGTH; the tuple moves to target_time_<length>,
\* the first field with a value and metadata, whose code (TIME_1, TIME_2,
\* TIME_3, TIME_5) becomes the code of the request.
ControlModel_post_init(value) ==
    IF Len(value) \notin {1, 2, 3, 5}
    THEN [raised |-> "ValueError", code |-> 0, field |-> <<>>]
    ELSE [raised |-> "", code |-> <<13, 14, 15, 0, 16>>[Len(value)], field |-> value]

\* BaseModel._serialize of a request with a code and a tuple or nothing:
\* the code by the u1 serializer, the tuple by the ListSerializer of the u2
\* serializer, one number after the other.
ControlModel_serialize(m) ==
    LET RECURSIVE list(_)
        list(v) ==
            IF v = <<>> THEN <<>>
            ELSE NumSerializer_serialize([sign |-> FALSE, size |-> 2, digits |-> 0],
                                         Num(Head(v), 0, "int")).written
                 \o list(Tail(v))
    IN  NumSerializer_serialize([sign |-> FALSE, size |-> 1, digits |-> 0],
                                Num(m.code, 0, "int")).written
        \o list(m.field)

\* The tuples given to write_command as target_time: up to six numbers of
\* seconds, of one byte or two.
TargetTimes == UNION {[1..n -> {5, 300}] : n \in 0..6}

\* write_command(cli, target_time=value) on a machine that accepts what is
\* written, up to the write of the request: a controller that is not
\* authorised writes REQUEST_CONTROL first (lines 140-145); then the request
\* is built (line 149), which may raise, serialised and written.  wrote is
\* what the control point received.
WriteTargetTime(authorised, value) ==
    LET first == IF authorised THEN <<>>
                 ELSE <<ControlModel_serialize([code |-> REQUEST_CONTROL, field |-> <<>>])>>
        request == ControlModel_post_init(value)
    IN  /\ called' = [fn |-> "write_command", auth |-> authorised, target_time |-> value]
        /\ returned' = [raised |-> request.raised,
                        wrote |-> IF request.raised # "" THEN first
                                  ELSE Append(first, ControlModel_serialize(request))]
        /\ UNCHANGED <<connected, controller, last, updater, facade>>

(* ---------------------------------------------------------------------- *)
(* The functions that keep no state                                        *)
(* ---------------------------------------------------------------------- *)

\* A run makes one call of one of them, with any argument.
NextFunctions ==
    /\ called = NoCall
    /\ \/ \E layout \in {"src", "flat"}, d \in FeatureDevices : ReadFeatures(layout, d)
       \/ \E layout \in {"src", "flat"}, data \in ServiceData : GetMachineType(layout, data)
       \/ \E fmt \in NumFormats, data \in UNION {[1..n -> Bytes] : n \in 0..3} :
             NumDeserialize(fmt, data)
       \/ \E fmt \in NumFormats, k \in -MaxRaw..MaxRaw :
             NumSerialize(fmt, IF fmt.digits = 0 THEN Num(k, 0, "int")
                               ELSE Num(k, fmt.digits, "literal"))
       \/ \E fmt \in NumFormats : NumSerialize(fmt, None)
       \/ \E data \in RealtimePayloads, asserts \in BOOLEAN :
             RealtimeDeserialize(data, asserts)
       \/ \E data \in StatusBytes, asserts \in BOOLEAN :
             StatusDeserialize(data, asserts)
       \/ \E authorised \in BOOLEAN, value \in TargetTimes :
             WriteTargetTime(authorised, value)

SpecFunctions == Init /\ [][NextFunctions]_vars

(* ---------------------------------------------------------------------- *)
(* Properties                                                              *)
(* ---------------------------------------------------------------------- *)

\* The calls under way and the call the last step ended, if it ended one.
Seen == {calls[p] : p \in Calls} \cup {last.call}

\* The call is set_target_speed(v) for some v.
IsSetSpeed(c) == c.code = <<>> /\ c.kwargs # <<>> /\ c.kwargs[1] = "target_speed"

\* The i-th indication call c was woken with reports SUCCESS of the i-th
\* request it wrote.
Ok(c, i) == c.got[i].code = c.wrote[i] /\ c.got[i].result = SUCCESS

\* The step starts call p.
Starts(p) == calls[p].pc = "idle" /\ calls'[p].pc # "idle"

\* The step is the return of the recursive REQUEST_CONTROL call of call p.
InnerReturns(p) ==
    calls[p].frame = "inner" /\ calls'[p].frame = "outer" /\ calls'[p].pc # "idle"

\* The step resumes call p with the indication for the request of its own frame.
OuterResumes(p) ==
    calls[p].pc = "await" /\ calls[p].frame = "outer" /\ calls'[p].pc = "idle"
    /\ last'.op = "resume"

C1_State ==
    \A c \in Seen : IsSetSpeed(c) =>
        /\ c.wrote \in {<<>>, <<REQUEST_CONTROL>>, <<REQUEST_CONTROL, SPEED>>, <<SPEED>>}
        /\ c.frame = "inner" => c.wrote \in {<<>>, <<REQUEST_CONTROL>>}
        /\ (c.frame = "inner" /\ c.pc # "done") => c.got = <<>>
        /\ c.wrote = <<REQUEST_CONTROL, SPEED>> => Len(c.got) >= 1
        /\ (c.pc = "done" /\ c.wrote = <<REQUEST_CONTROL, SPEED>>
                /\ Len(c.got) = 2 /\ Ok(c, 1) /\ Ok(c, 2)) =>
              /\ c.events = <<SetupEvent(<<"target_speed", c.kwargs[2]>>, "callback")>>
              /\ last.events = c.events
              /\ c.outcome = Return(SUCCESS)

C1_Step ==
    \A p \in Calls :
        /\ (Starts(p) /\ ~auth /\ IsSetSpeed(calls'[p])) =>
              calls'[p].frame = "inner" /\ calls'[p].wrote = <<>>
        /\ (InnerReturns(p) /\ IsSetSpeed(calls[p])) =>
              /\ calls'[p].wrote = <<REQUEST_CONTROL>>
              /\ Len(calls'[p].got) = 1
              /\ last'.events = <<>>
              /\ Ok(calls'[p], 1) => auth'
        /\ (OuterResumes(p) /\ IsSetSpeed(calls[p])) => auth' = auth

InFlight(p) == {i \in DOMAIN mq : mq[i].src = p}

C3_OwnIndication ==
    \A c \in Seen : \A i \in DOMAIN c.got :
        c.got[i].kind = "return" => c.got[i].own

\* C4: a LOST_CONTROL notification leaves _auth false and passes no event
\* to the callback; a write_command for a request other than
\* REQUEST_CONTROL called next writes REQUEST_CONTROL first, and its own
\* request only after the recursive call was resumed with an indication.
C4_LostControl ==
    /\ (last.op = "machine_status" /\ last.arg = MS_LOST_CONTROL) =>
          ~auth /\ last.events = <<>>
    /\ \A c \in Seen : (c.after_lost /\ c.code # <<REQUEST_CONTROL>>) =>
          /\ c.wrote # <<>> => c.wrote[1] = REQUEST_CONTROL
          /\ Len(c.wrote) >= 2 =>
                /\ c.wrote = <<REQUEST_CONTROL, ControlModel(c.code, c.kwargs).code>>
                /\ Len(c.got) >= 1
          /\ c.wrote = <<>> => c.frame = "inner"

C4_Witness ==
    /\ last.call.pc = "done"
    /\ last.call.after_lost
    /\ last.call.code = <<RESET>>
    /\ last.call.wrote = <<REQUEST_CONTROL, RESET>>
    /\ last.call.outcome = Return(SUCCESS)

\* C5: when the timeout of a call that has written its request expires, the
\* call raises TimeoutError, its future is done (the indication slot is
\* released) and _auth is false.
C5_TimeoutClearsAuth ==
    (last.op = "timeout" /\ last.call.wrote # <<>>) =>
        /\ last.call.outcome = Raise("TimeoutError")
        /\ FutDone(fut[last.arg])
        /\ ~auth

\* C6: a call that was waiting for its indication when the transport
\* dropped ends by raising the transport's error (BleakError), and _auth is
\* false when it has ended.
C6_DisconnectFailsPending ==
    (last.call.pc = "done" /\ last.call.lost) =>
        last.call.outcome = Raise("BleakError") /\ ~auth

C7_State ==
    last.op = "write_error" =>
        /\ last.call.pc = "done"
        /\ last.call.outcome = Raise("BleakError")
        /\ last.events = <<>>
        /\ last.call.events = <<>>
        /\ ~auth

C7_Step ==
    \A p \in Calls :
        (Starts(p) /\ last.op = "write_error" /\ calls'[p].code # <<REQUEST_CONTROL>>) =>
            calls'[p].frame = "inner" /\ Request(calls'[p]).code = REQUEST_CONTROL

\* C7: when the GATT write of a call raises BleakError, the call raises it
\* to its caller, passes no event to the callback, and leaves _auth false;
\* a command called next starts by requesting control.
C7_WriteErrorPropagates == [] C7_State /\ [][C7_Step]_vars

C7_Witness ==
    /\ last.op = "write_error"
    /\ last.call.wrote = <<REQUEST_CONTROL>>
    /\ Len(last.call.got) = 1 /\ Ok(last.call, 1)
    /\ last.call.outcome = Raise("BleakError")
    /\ connected
    /\ ~auth

\* The call ended when it was resumed with an indication.
EndedOnIndication(c) ==
    last.op = "resume" /\ c = last.call /\ c.pc = "done" /\ Len(c.got) = Len(c.wrote)

\* The indication the call ended on carries another request code than the
\* request written.
Mismatch(c) == c.got[Len(c.got)].code # c.wrote[Len(c.wrote)]

\* C8: a call resumed with an indication whose request code differs from
\* the code of the request it wrote raises an error (ValueError) instead of
\* returning a result code, and passes no event to the callback.
C8_MismatchFails ==
    \A c \in Seen : (EndedOnIndication(c) /\ Mismatch(c)) =>
        /\ c.outcome = Raise("ValueError")
        /\ last.events = <<>>
        /\ c.events = <<>>

C8_Witness ==
    /\ EndedOnIndication(last.call)
    /\ Mismatch(last.call)
    /\ last.call.got[Len(last.call.got)].result = SUCCESS
    /\ last.call.wrote = <<RESET>>
    /\ last.call.outcome = Raise("ValueError")

\* The i-th indication call c was woken with is for the i-th request it
\* wrote and reports another result than SUCCESS.
Refused(c, i) == c.got[i].code = c.wrote[i] /\ c.got[i].result # SUCCESS

\* The step resumes call p with an indication.
Resumed(p) == calls[p].pc = "await" /\ last'.op = "resume" /\ last'.arg = p

\* Call p after the step that resumed it.
After(p) == IF calls'[p].pc = "idle" THEN last'.call ELSE calls'[p]

C9_State ==
    \A c \in Seen :
        /\ \A i \in DOMAIN c.got : Refused(c, i) => c.got[i].kind = "return"
        /\ (EndedOnIndication(c) /\ Refused(c, Len(c.got))) =>
              /\ c.outcome = Return(c.got[Len(c.got)].result)
              /\ last.events = <<>>
              /\ c.events = <<>>

C9_Step ==
    \A p \in Calls :
        (Resumed(p) /\ Refused(After(p), Len(After(p).got))) =>
            auth' = auth /\ last'.events = <<>>

\* C9: a call resumed with the indication for the code it wrote and a
\* result other than SUCCESS returns that result code as its value, raises
\* nothing, passes no event to the callback and leaves _auth as it was.
C9_ResultIsValue == [] C9_State /\ [][C9_Step]_vars

C9_Witness ==
    /\ EndedOnIndication(last.call)
    /\ last.call.wrote = <<RESET>>
    /\ last.call.got[1].code = RESET
    /\ last.call.got[1].result = NOT_PERMITTED
    /\ last.call.outcome = Return(NOT_PERMITTED)
    /\ last.events = <<>>
    /\ auth

\* C10: when a RESET request completes with SUCCESS, _auth is false and the
\* call passes exactly one event, ControlEvent("reset", "callback"); when a
\* machine-status RESET notification arrives, _auth is false and the handler
\* passes exactly one event, ControlEvent("reset", "other").
C10_ResetObserved ==
    /\ \A c \in Seen :
          (EndedOnIndication(c) /\ c.wrote[Len(c.wrote)] = RESET /\ Ok(c, Len(c.got))) =>
              /\ ~auth
              /\ last.events = <<ControlEvent("reset", "callback")>>
              /\ c.events = last.events
              /\ c.outcome = Return(SUCCESS)
    /\ (last.op = "machine_status" /\ last.arg = MS_RESET) =>
          /\ ~auth
          /\ last.events = <<ControlEvent("reset", "other")>>

C10_Witness ==
    /\ EndedOnIndication(last.call)
    /\ last.call.code = <<RESET>>
    /\ last.call.wrote = <<REQUEST_CONTROL, RESET>>
    /\ Ok(last.call, 1) /\ Ok(last.call, 2)
    /\ last.call.got[2].own
    /\ last.events = <<ControlEvent("reset", "callback")>>
    /\ ~auth

(* ---------------------------------------------------------------------- *)
(* C11                                                                     *)
(* ---------------------------------------------------------------------- *)

\* The step is an _on_notify call.
Notified == last'.op = "notify"

C11_State ==
    last.op = "notify" /\ last.events # <<>> => ~MoreData(notify.data)

C11_Step ==
    Notified /\ MoreData(notify'.data) =>
        LET rec == deserialize(notify'.data)
        IN  /\ last'.events = <<>>
            /\ notify'.raised = ""
            /\ prev' = prev
            /\ DOMAIN result' = DOMAIN result \cup DOMAIN rec
            /\ \A k \in DOMAIN rec : result'[k] = rec[k]
            /\ \A k \in DOMAIN result \ DOMAIN rec : result'[k] = result[k]

\* C11: a realtime notification with More Data = 1 passes no Update event to
\* the callback; its fields are merged into the accumulator, a field already
\* there taking the new value, and the snapshot is left alone; an Update
\* event is passed on only by a notification with More Data = 0.
C11_MoreDataAccumulates == [] C11_State /\ [][C11_Step]_vars

\* A record with More Data = 1 has been merged into fields of an earlier one.
C11_Witness ==
    /\ last.op = "notify"
    /\ MoreData(notify.data)
    /\ DOMAIN deserialize(notify.data) # {}
    /\ DOMAIN result \ DOMAIN deserialize(notify.data) # {}

(* ---------------------------------------------------------------------- *)
(* C12                                                                     *)
(* ---------------------------------------------------------------------- *)

\* The record accumulated when the notification of this step is merged.
Accumulated == Merge(result, deserialize(notify'.data))

\* The step is an _on_notify call with More Data = 0 on a record that is
\* not all zero.
Closes == Notified /\ ~MoreData(notify'.data) /\ AnyValue(Accumulated)

\* The keys of cur whose value differs from old's or that old does not have.
Changed(cur, old) == {k \in DOMAIN cur : k \notin DOMAIN old \/ cur[k] # old[k]}

\* C12: a closing record passes on, when the accumulated record cur has keys
\* that are new or whose value differs from prev's, exactly one Update event
\* whose payload is cur restricted to those keys, and no event when there
\* are none, also when prev has keys that cur has not.  (Records that are
\* all zero are C13's.)
C12_UpdateIsDifference ==
    [][Closes =>
        LET cur == Accumulated
            keys == Changed(cur, prev)
        IN  /\ notify'.raised = ""
            /\ last'.events = IF keys = {} THEN <<>>
                              ELSE <<UpdateEvent([k \in keys |-> cur[k]])>>]_vars

(* ---------------------------------------------------------------------- *)
(* C13                                                                     *)
(* ---------------------------------------------------------------------- *)

\* Every value of the dict is zero.
AllZero(d) == \A k \in DOMAIN d : d[k] = 0

C13_Zero ==
    Notified /\ ~MoreData(notify'.data) /\ AllZero(Accumulated) =>
        /\ last'.events = <<>>
        /\ notify'.raised = ""
        /\ result' = Empty
        /\ prev' = prev

C13_Same ==
    Notified /\ ~MoreData(notify'.data) /\ Accumulated = prev =>
        /\ last'.events = <<>>
        /\ notify'.raised = ""
        /\ result' = Empty
        /\ prev' = prev

\* C13: a closing record whose accumulated values are all zero passes no
\* event on, clears the accumulator and leaves the snapshot prev as it was;
\* a closing record whose accumulated values equal prev passes no event on
\* either.
C13_AllZeroSilent == [][C13_Zero /\ C13_Same]_vars

\* An all-zero closing record was handled while the snapshot held a value
\* other than zero.
C13_Witness ==
    /\ last.op = "notify"
    /\ ~MoreData(notify.data)
    /\ AllZero(deserialize(notify.data))
    /\ last.events = <<>>
    /\ result = Empty
    /\ ~AllZero(prev)

(* ---------------------------------------------------------------------- *)
(* C14                                                                     *)
(* ---------------------------------------------------------------------- *)

\* C14: when _on_notify has handled a notification with More Data = 0 the
\* accumulator is empty, whatever the record and the snapshot were.
C14_ClosedIsEmpty ==
    last.op = "notify" /\ ~MoreData(notify.data) => result = Empty

(* ---------------------------------------------------------------------- *)
(* C15                                                                     *)
(* ---------------------------------------------------------------------- *)

\* C15: when _on_disconnect has run, the accumulator and the snapshot of the
\* updater are empty and the controller's _auth and _subscribed are false.
C15_DisconnectResets ==
    last.op = "disconnect" =>
        /\ result = Empty
        /\ prev = Empty
        /\ ~auth
        /\ ~subscribed

\* The transport dropped on a session that held control (its RESET was
\* written without a request for control before it) and whose updater held
\* a snapshot and an accumulated record (its last notification raised).
C15_Witness ==
    /\ last.op = "disconnect"
    /\ notify.raised = "KeyError"
    /\ \E p \in Calls :
          /\ calls[p].pc = "await"
          /\ calls[p].frame = "outer"
          /\ calls[p].wrote = <<RESET>>

(* ---------------------------------------------------------------------- *)
(* C16                                                                     *)
(* ---------------------------------------------------------------------- *)

\* The events C16 names for the notification m.
C16_Events(m) ==
    CASE m.code = MS_STOP_PAUSE /\ m.param[2] = 1 -> <<ControlEvent("stop", "user")>>
      [] m.code = MS_STOP_PAUSE /\ m.param[2] = 2 -> <<ControlEvent("pause", "user")>>
      [] m.code = MS_STOP_SAFETY -> <<ControlEvent("stop", "safety")>>
      [] m.code = MS_START_RESUME -> <<ControlEvent("start", "user")>>

\* C16: a machine-status STOP_PAUSE notification passes on exactly
\* Control{stop, user} when its payload is 1 and Control{pause, user} when it
\* is 2, STOP_SAFETY exactly Control{stop, safety} and START_RESUME exactly
\* Control{start, user}; none of them changes auth.
C16_StatusControlEvents ==
    [][\A m \in StatusNotifications :
          /\ m.code \in {MS_STOP_PAUSE, MS_STOP_SAFETY, MS_START_RESUME}
          /\ MachineStatus(m)
          => last'.events = C16_Events(m) /\ auth' = auth]_vars

\* A pause notification was handled by a controller that holds control.
C16_Witness ==
    /\ last.op = "machine_status"
    /\ last.arg = MS_STOP_PAUSE
    /\ last.events = <<ControlEvent("pause", "user")>>
    /\ auth

(* ---------------------------------------------------------------------- *)
(* C17                                                                     *)
(* ---------------------------------------------------------------------- *)

\* The name C17 has the payload of the code published under.
C17_Name(code) ==
    CASE code = MS_SPEED -> "target_speed"
      [] code = MS_POWER -> "target_power"
      [] code = MS_CADENCE -> "target_cadence"
      [] code \in {MS_TIME_1, MS_TIME_2, MS_TIME_3, MS_TIME_5} -> "target_time"

\* The payload as decoded: the number, or the tuple of numbers of a time code.
C17_Value(data) ==
    IF data.code \in {MS_TIME_1, MS_TIME_2, MS_TIME_3, MS_TIME_5}
    THEN data.payload ELSE data.payload[1]

\* C17: a well-formed machine-status notification whose code carries a
\* payload and is none of RESET, STOP_PAUSE, STOP_SAFETY, START_RESUME and
\* LOST_CONTROL passes on exactly one Setup event with source other whose
\* single field is the decoded payload, the time codes under target_time.
C17_StatusSetupEvent ==
    /\ last.op = "machine_status"
    /\ last.arg \in {MS_SPEED, MS_POWER, MS_CADENCE,
                      MS_TIME_1, MS_TIME_2, MS_TIME_3, MS_TIME_5}
    => /\ notify.raised = ""
       /\ last.events =
            <<SetupEvent(<<C17_Name(last.arg), C17_Value(notify.data)>>, "other")>>

(* ---------------------------------------------------------------------- *)
(* C18                                                                     *)
(* ---------------------------------------------------------------------- *)

\* No field of that name has its bit set in the machine's settings bitmap.
C18_Unsupported(id) ==
    \A i \in DOMAIN ControlFields :
        <<ControlFields[i].name, ControlFields[i].digit>> = id
        => Bit(m_settings, ControlFields[i].bit) = 0

\* C18: a typed set command for a setting that is not in the machine's
\* supported settings returns NOT_SUPPORTED; nothing is written to the
\* control point, control is not requested, no call of write_command begins
\* and no event is passed on.
C18_UnsupportedSetting ==
    [][\A p \in SerialCalls, c \in SettingCalls :
          SetSetting(p, c[1], c[2]) /\ C18_Unsupported(c[1])
          => /\ last'.op = "set_setting"
             /\ last'.call.outcome = Return(NOT_SUPPORTED)
             /\ last'.call.wrote = <<>>
             /\ last'.events = <<>>
             /\ mq' = mq
             /\ calls' = calls
             /\ fut' = fut
             /\ indicate' = indicate
             /\ auth' = auth]_vars

\* set_target_power returned NOT_SUPPORTED on a connected machine that
\* advertises target speed and not target power.
C18_Witness ==
    /\ last.op = "set_setting"
    /\ last.call.kwargs[1] = "target_power"
    /\ last.call.outcome = Return(NOT_SUPPORTED)
    /\ connected
    /\ Bit(m_settings, 0) = 1
    /\ Bit(m_settings, 3) = 0

(* ---------------------------------------------------------------------- *)
(* C19                                                                     *)
(* ---------------------------------------------------------------------- *)

\* The settings bit of the targeted-time setting for n zones.
C19_TimeBit(n) == CASE n = 1 -> 9 [] n = 2 -> 10 [] n = 3 -> 11 [] n = 5 -> 12

\* C19: on a connected machine whose settings bitmap advertises the
\* targeted-time setting for n zones, set_target_time with n values is not
\* refused: the request is handed to write_command, which begins a call.
C19_TargetTimeAccepted ==
    [][\A p \in SerialCalls, c \in SettingCalls :
          /\ c[1] = <<"target_time", 0>>
          /\ connected
          /\ Bit(m_settings, C19_TimeBit(Len(c[2]))) = 1
          /\ SetSetting(p, c[1], c[2])
          => calls'[p].pc # "idle"]_vars

(* ---------------------------------------------------------------------- *)
(* C20                                                                     *)
(* ---------------------------------------------------------------------- *)

\* The data of the i-th event as a dict, when it is an event of that kind.
C20_Data(i, kind) ==
    IF history[i].event_id # kind THEN Empty
    ELSE IF kind = "setup" THEN AsDict(history[i].event_data)
    ELSE history[i].event_data

\* The events of that kind that carried the key k.
C20_Carried(k, kind) == {i \in DOMAIN history : k \in DOMAIN C20_Data(i, kind)}

\* The map holds exactly the keys events of that kind carried, each with the
\* value of the latest event that carried it.
C20_Latest(map, kind) ==
    /\ DOMAIN map = {k \in {"speed_instant", "speed_average", "target_speed",
                              "target_power", "code"} : C20_Carried(k, kind) # {}}
    /\ \A k \in DOMAIN map :
          LET i == CHOOSE j \in C20_Carried(k, kind) :
                      \A h \in C20_Carried(k, kind) : h <= j
          IN  map[k] = C20_Data(i, kind)[k]

C20_State == C20_Latest(properties, "update") /\ C20_Latest(settings, "setup")

C20_Step ==
    last'.op = "event" /\ last'.events[1].event_id \notin {"update", "setup"}
    => properties' = properties /\ settings' = settings

\* C20: after any sequence of events the cached properties hold, for every
\* key, the value of the latest Update event that carried the key, and the
\* cached settings the same for Setup events; Control, TrainingStatus and
\* SpinDown events change neither.
C20_CachedMaps == [] C20_State /\ [][C20_Step]_vars

\* A second Update event replaced a cached value and left another alone,
\* and a Setup event was cached as well.
C20_Witness ==
    /\ Len(history) = 3
    /\ history[1].event_id = "update"
    /\ history[2].event_id = "update"
    /\ history[3].event_id = "setup"
    /\ DOMAIN history[1].event_data = {"speed_instant", "speed_average"}
    /\ DOMAIN history[2].event_data = {"speed_instant"}
    /\ history[2].event_data["speed_instant"] # history[1].event_data["speed_instant"]
    /\ properties["speed_average"] = history[1].event_data["speed_average"]

(* ---------------------------------------------------------------------- *)
(* C21                                                                     *)
(* ---------------------------------------------------------------------- *)

\* The names an update event among the events from.. carried with a value
\* that is not zero.
C21_Live(from) ==
    {k \in {DataFields[1], DataFields[2]} :
        \E i \in from..Len(history) :
            /\ history[i].event_id = "update"
            /\ k \in DOMAIN history[i].event_data
            /\ history[i].event_data[k] # 0}

\* Those of the current session, the events after the last connect.
C21_SessionLive == C21_Live(session + 1)

C22_Cleared(mt) ==
    LET S == MachineSettings
    IN  CASE mt = MachineType.TREADMILL -> {S.RESISTANCE, S.POWER}
          [] mt \in {MachineType.CROSS_TRAINER, MachineType.INDOOR_BIKE,
                     MachineType.ROWER} -> {S.SPEED, S.INCLINE}

\* C22: for every raw settings bitmap, read_features clears, before any range
\* pruning, RESISTANCE and POWER on a treadmill and SPEED and INCLINE on a
\* cross trainer, an indoor bike and a rower, and leaves every other bit.
C22_UntypicalCleared ==
    (/\ called.fn = "read_features"
     /\ called.device.mt \in {MachineType.TREADMILL, MachineType.CROSS_TRAINER,
                              MachineType.INDOOR_BIKE, MachineType.ROWER})
    => BitsOf(returned.typical) = BitsOf(called.device.raw) \ C22_Cleared(called.device.mt)

(* ---------------------------------------------------------------------- *)
(* C23                                                                     *)
(* ---------------------------------------------------------------------- *)

\* C23: after the feature and range read, each of the five ranged settings
\* has its bit set in the final settings bitmap exactly when its range is in
\* the ranges map; a setting advertised whose range characteristic is absent
\* has its bit cleared.
C23_BitIffRange ==
    called.fn = "read_features"
    => \A i \in DOMAIN RangedSettings :
         /\ Bit(returned.settings, RangedSettings[i].bit) = 1
               <=> RangedSettings[i].name \in DOMAIN returned.ranges
         /\ RangedSettings[i].name \notin DOMAIN called.device.chars
               => Bit(returned.settings, RangedSettings[i].bit) = 0

(* ---------------------------------------------------------------------- *)
(* C24                                                                     *)
(* ---------------------------------------------------------------------- *)

\* C24: for every FTMS service-data payload, the parser either returns a
\* MachineType with exactly one of the six type bits set, and only when bit 0
\* of the flags is set, or raises NotFitnessMachineError; it never returns an
\* empty or a multi-bit MachineType.
C24_SingleTypeOrError ==
    called.fn = "get_machine_type"
    => \/ returned.raised = "NotFitnessMachineError"
       \/ /\ returned.raised = ""
          /\ returned.value \in {MachineType[k] : k \in DOMAIN MachineType}
          /\ called.data.bytes[1] % 2 = 1

(* ---------------------------------------------------------------------- *)
(* C25                                                                     *)
(* ---------------------------------------------------------------------- *)

\* C25: the parser accepts service data of 2 or 3 bytes (with bit 0 of the
\* flags set, 01 01 and 01 01 00 give TREADMILL and 01 00 20 gives
\* INDOOR_BIKE) and raises NotFitnessMachineError when the service data is
\* missing or has any other length.
C25_TwoOrThreeBytes ==
    called.fn = "get_machine_type"
    => /\ called.data.bytes \in {<<1, 1>>, <<1, 1, 0>>}
            => returned = Returned(MachineType.TREADMILL)
       /\ called.data.bytes = <<1, 0, 32>>
            => returned = Returned(MachineType.INDOOR_BIKE)
       /\ ~called.data.present \/ Len(called.data.bytes) \notin {2, 3}
            => returned.raised = "NotFitnessMachineError"

(* ---------------------------------------------------------------------- *)
(* C29                                                                     *)
(* ---------------------------------------------------------------------- *)

\* The sentinel of a format as bytes: all ones, the top bit of the last byte
\* clear in a signed format.
C29_Sentinel(fmt) ==
    [i \in 1..fmt.size |-> IF fmt.sign /\ i = fmt.size THEN 127 ELSE 255]

\* C29: for every number format, decoding the sentinel bytes (all ones of the
\* unsigned range, the greatest positive value of the signed range) yields
\* absent, and encoding absent writes exactly those bytes, with or without a
\* factor.
C29_SentinelIsAbsent ==
    /\ (called.fn = "NumSerializer.deserialize" /\ called.data = C29_Sentinel(called.fmt))
         => returned.raised = "" /\ returned.value = None /\ returned.stream = <<>>
    /\ (called.fn = "NumSerializer.serialize" /\ called.value = None)
         => returned.raised = "" /\ returned.written = C29_Sentinel(called.fmt)

\* The sentinel of a signed format with a factor has been decoded.
C29_Witness ==
    /\ called.fn = "NumSerializer.deserialize"
    /\ called.fmt.sign /\ called.fmt.digits = 1 /\ called.fmt.size = 2
    /\ called.data = <<255, 127>>
    /\ returned.value = None

(* ---------------------------------------------------------------------- *)
(* C30                                                                     *)
(* ---------------------------------------------------------------------- *)

\* a == b for a number decoded and a number a caller wrote.
C30_Same(a, b) ==
    /\ a # None
    /\ a.k = b.k /\ a.digits = b.digits
    /\ ~ProductOff(a.k, a.digits)

\* C30: for every number format and every value x representable at the
\* resolution of the format and within its range, decode(encode(x)) == x, and
\* encode(x) writes exactly `size` bytes.
C30_RoundTrip ==
    (/\ called.fn = "NumSerializer.serialize"
     /\ called.value # None
     /\ called.fmt.sign \/ called.value.k >= 0)
    => /\ returned.raised = ""
       /\ Len(returned.written) = called.fmt.size
       /\ C30_Same(NumSerializer_deserialize(called.fmt, returned.written).value,
                     called.value)

(* ---------------------------------------------------------------------- *)
(* C26                                                                     *)
(* ---------------------------------------------------------------------- *)

\* The leaves, in wire order, of the declared fields from f on whose
\* positional bit (declaration order, bit 0 first) is set in the word.
RECURSIVE C26_Leaves(_, _)
C26_Leaves(f, word) ==
    IF f > Len(TreadmillData) THEN <<>>
    ELSE (IF Bit(word, f - 1) = 1 THEN TreadmillData[f].leaves ELSE <<>>)
         \o C26_Leaves(f + 1, word)

\* The bytes before leaf i of the payload: the flags word and the leaves
\* before it.
RECURSIVE C26_Offset(_, _)
C26_Offset(leaves, i) ==
    IF i = 1 THEN 2 ELSE C26_Offset(leaves, i - 1) + leaves[i - 1].fmt.size

\* What the claim has a payload decode to: the payload is as long as the
\* flags word M and the fields set in M xor 1, and the result holds the
\* value of every leaf of those fields that is not the sentinel.
C26_Expected(data) ==
    LET M == from_bytes(SubSeq(data, 1, 2), FALSE)
        leaves == C26_Leaves(1, IF M % 2 = 1 THEN M - 1 ELSE M + 1)
        at(i) == NumSerializer_deserialize(
                     leaves[i].fmt,
                     SubSeq(data, C26_Offset(leaves, i) + 1, Len(data))).value
        size == C26_Offset(leaves, Len(leaves) + 1)
    IN  [size |-> size,
         value |-> IF Len(data) # size THEN Empty
                   ELSE [k \in {leaves[i].name : i \in {j \in 1..Len(leaves) : at(j) # None}}
                            |-> at(CHOOSE i \in 1..Len(leaves) : leaves[i].name = k)]]

\* C26: for every realtime payload with flags word M, decoding succeeds
\* exactly when the payload is 2 bytes plus the total size of the declared
\* fields whose positional bit is set in M xor 1, and the flattened result
\* then holds exactly the leaf values of those fields, sentinels omitted; a
\* shorter payload fails with end-of-stream and a longer one fails the
\* exhaustion check.
C26_Decoded ==
    (called.fn = "RealtimeData.deserialize" /\ Len(called.data) >= 2)
    => LET e == C26_Expected(called.data)
       IN  /\ returned.raised = "" <=> Len(called.data) = e.size
           /\ Len(called.data) = e.size => returned.value = e.value
           /\ Len(called.data) < e.size => returned.raised = "EOFError"
           /\ Len(called.data) > e.size => returned.raised = "AssertionError"

(* ---------------------------------------------------------------------- *)
(* C27                                                                     *)
(* ---------------------------------------------------------------------- *)

\* What the claim has the bytes of a machine status with a parameter decode
\* to: the field whose code is the first byte, a number or a tuple of num
\* numbers read in the field's format from the bytes after the code.
C27_Expected(data) ==
    LET f == StatusFields[CHOOSE i \in DOMAIN StatusFields : StatusFields[i].code = data[1]]
        fmt == StatusFormat(f.name)
        at(i) == NumSerializer_deserialize(
                     fmt, SubSeq(data, 2 + (i - 1) * fmt.size, Len(data))).value
        value == IF f.num = 0 THEN at(1) ELSE [i \in 1..f.num |-> at(i)]
    IN  [size |-> 1 + fmt.size * (IF f.num = 0 THEN 1 ELSE f.num),
         value |-> [k \in {"code"} \cup (IF f.num = 0 /\ value = None THEN {} ELSE {f.name})
                      |-> IF k = "code" THEN Num(data[1], 0, "int") ELSE value]]

\* C27: decoding a code-switched record yields the code plus exactly the one
\* field whose code metadata equals the first byte, decoded with that
\* field's format (05 69 00 as machine status gives code 5 and target_speed
\* 1.05), and decoding fails if any byte remains after that field.
C27_CodeAndField ==
    (/\ called.fn = "CodeSwitchModel.deserialize"
     /\ \E i \in DOMAIN StatusFields : StatusFields[i].code = called.data[1])
    => LET e == C27_Expected(called.data)
       IN  /\ Len(called.data) = e.size
              => returned = [raised |-> "", value |-> e.value]
           /\ Len(called.data) > e.size => returned.raised # ""

(* ---------------------------------------------------------------------- *)
(* C28                                                                     *)
(* ---------------------------------------------------------------------- *)

\* A request of n times on the wire: opcode 0x0D, 0x0E, 0x0F or 0x10 for n =
\* 1, 2, 3, 5, then each time as two bytes, low byte first.
RECURSIVE C28_Wire(_, _)
C28_Wire(value, n) ==
    IF value = <<>>
    THEN <<CASE n = 1 -> 13 [] n = 2 -> 14 [] n = 3 -> 15 [] n = 5 -> 16>>
    ELSE C28_Wire(SubSeq(value, 1, Len(value) - 1), n)
         \o <<value[Len(value)] % 256, value[Len(value)] \div 256>>

\* A target_time of a valid length is written as its request, after
\* whatever wrote is to hold of the requests written before it; any other
\* length raises ValueError and leaves the control point with `before`.
C28_Built(before) ==
    called.fn = "write_command"
    => LET value == called.target_time
       IN  IF Len(value) \in {1, 2, 3, 5}
           THEN /\ returned.raised = ""
                /\ returned.wrote[Len(returned.wrote)] = C28_Wire(value, Len(value))
           ELSE /\ returned.raised = "ValueError"
                /\ returned.wrote = before

\* C28 as stated: building a control request from a target_time of length n
\* selects opcode 0x0D, 0x0E, 0x0F, 0x10 for n = 1, 2, 3, 5 and serialises
\* as the opcode followed by n little-endian u2 values; any other length
\* fails with an invalid-parameter error and nothing is written to the
\* control point.
C28_NothingWritten == C28_Built(<<>>)

\* C28, amended: as above, but with another length the request itself is
\* not written: the control point has received nothing from an authorised
\* controller, and the automatic REQUEST_CONTROL alone from one that was not
\* authorised.
C28_RequestNotWritten ==
    C28_Built(IF called.auth THEN <<>> ELSE << <<REQUEST_CONTROL>> >>)

\* A target_time of four values was refused by a controller that had to
\* request control first, and one of five was written.
C28_Witness ==
    /\ called.fn = "write_command"
    /\ \/ Len(called.target_time) = 4 /\ ~called.auth /\ returned.raised = "ValueError"
       \/ Len(called.target_time) = 5 /\ returned.raised = "" /\ Len(returned.wrote) = 2

(* ---------------------------------------------------------------------- *)
(* C31                                                                     *)
(* ---------------------------------------------------------------------- *)

\* The recursive REQUEST_CONTROL call of c has returned a result code other
\* than SUCCESS: the call was resumed with the indication for the
\* REQUEST_CONTROL it wrote, and _auth was left false.
C31_Refusal(c) ==
    /\ c.code # <<REQUEST_CONTROL>>
    /\ c.wrote # <<>> /\ c.wrote[1] = REQUEST_CONTROL
    /\ c.got # <<>> /\ c.got[1].kind = "return"
    /\ c.got[1].code = REQUEST_CONTROL /\ c.got[1].result # SUCCESS

\* C31: a request other than REQUEST_CONTROL is written only while control
\* is held: when the automatic REQUEST_CONTROL of a write_command call has
\* completed with a result other than SUCCESS, the call does not write its
\* own request.
C31_NoWriteWithoutControl ==
    \A c \in Seen : C31_Refusal(c) => c.wrote = <<REQUEST_CONTROL>>

(* ---------------------------------------------------------------------- *)
(* C32                                                                     *)
(* ---------------------------------------------------------------------- *)

\* The step resumes the REQUEST_CONTROL frame of call p with an indication
\* of SUCCESS for it.
C32_Granted(p) ==
    /\ calls[p].pc = "await"
    /\ fut[p].state = "result"
    /\ Request(calls[p]).code = REQUEST_CONTROL
    /\ fut[p].data[1].request_code = REQUEST_CONTROL
    /\ fut[p].data[1].result_code = SUCCESS
    /\ last'.op = "resume" /\ last'.arg = p

\* C32: once a LOST_CONTROL notification has been processed, _auth stays
\* false until a REQUEST_CONTROL written after that notification completes
\* with SUCCESS, also when the notification is handled while a write_command
\* is suspended between the arrival of its indication and its resumption:
\* _auth becomes true only in the step that resumes a REQUEST_CONTROL frame
\* with SUCCESS, and never for a request written before a LOST_CONTROL
\* notification that has been handled since.
C32_LostControlHolds ==
    [][(~auth /\ auth') => \E p \in Calls : C32_Granted(p) /\ ~calls[p].stale]_vars

(* ---------------------------------------------------------------------- *)
(* C33                                                                     *)
(* ---------------------------------------------------------------------- *)

\* C33: in every reachable state in which the transport is disconnected (the
\* disconnect callback has run and no new connection has been established),
\* _auth is false, however the disconnect callback interleaves with the
\* write_command calls under way.
C33_DisconnectedNoAuth == ~connected => ~auth

(* ---------------------------------------------------------------------- *)
(* C34                                                                     *)
(* ---------------------------------------------------------------------- *)

\* No write_command is waiting for an indication: none was called yet, or
\* the one called last has its indication, timed out or has ended.
C34_NobodyWaits ==
    \/ indicate = 0
    \/ FutDone(fut[indicate])
    \/ calls[indicate].pc \notin {"write", "await"}

\* C34: an indication that arrives while no write_command is waiting for one
\* is discarded: _on_indicate does not raise, _auth stays as it is, no event
\* is passed to the callback and no future changes.
C34_StrayDiscarded ==
    [][(C34_NobodyWaits /\ last'.op = "indicate")
        => /\ notify'.raised = ""
           /\ auth' = auth
           /\ last'.events = <<>>
           /\ fut' = fut]_vars

(* ---------------------------------------------------------------------- *)
(* C35                                                                     *)
(* ---------------------------------------------------------------------- *)

\* C35: bytes whose first byte is not the response opcode 0x80 do not
\* complete a request: a frame woken with them returns no SUCCESS, leaves
\* _auth as it is and passes no event to the callback.
C35_ResponseOpcodeOnly ==
    [][\A p \in Calls :
          (Resumed(p) /\ fut[p].data[1].code # RESPONSE)
          => /\ auth' = auth
             /\ last'.events = <<>>
             /\ last'.call.outcome # Return(SUCCESS)]_vars

(* ---------------------------------------------------------------------- *)
(* C36                                                                     *)
(* ---------------------------------------------------------------------- *)

\* C36: every Setup event the controller passes to the callback, after an
\* indication or a machine-status notification of any code, carries exactly
\* one setting in its data (a name and its value).
C36_SetupHasOneField ==
    \A i \in DOMAIN last.events :
        last.events[i].event_id = "setup" => Len(last.events[i].event_data) = 2

(* ---------------------------------------------------------------------- *)
(* C37                                                                     *)
(* ---------------------------------------------------------------------- *)

\* C37: within one session the calls of subscribe() start the notifications
\* at most once.  _connect has started them when the session began (Connect
\* finds _subscribed false, reset() having run at the disconnect before), so
\* no subscribe() called by a write_command of the session gets past line
\* 105 and starts them again.
C37_StartedOncePerSession ==
    [][\A p \in Calls :
          ~(connected /\ calls[p].cli /\ calls[p].pc = "subscribe"
            /\ last'.op = "subscribe" /\ last'.arg = p)]_vars

(* ---------------------------------------------------------------------- *)
(* C38                                                                     *)
(* ---------------------------------------------------------------------- *)

\* reset() has run: at a disconnect, or in subscribe() at a connect.
C38_Reset ==
    last'.op \in {"connect", "disconnect"} => prev' = Empty /\ result' = Empty

\* The first update after a reset(): the snapshot is still empty when the
\* closing record arrives, and the event carries every field accumulated
\* since, those of the closing record with its values.
C38_First ==
    (Notified /\ prev = Empty /\ last'.events # <<>>) =>
        LET rec == deserialize(notify'.data)
            data == last'.events[1].event_data
        IN  /\ Len(last'.events) = 1
            /\ last'.events[1].event_id = "update"
            /\ DOMAIN data = DOMAIN result \cup DOMAIN rec
            /\ \A k \in DOMAIN rec : data[k] = rec[k]
            /\ \A k \in DOMAIN result \ DOMAIN rec : data[k] = result[k]

\* C38: reset() leaves nothing of the snapshot and of the records
\* accumulated before it, and the first Update event passed on after it
\* carries every key of the accumulated closing record, whatever was passed
\* on before the reset.
C38_FirstUpdateAfterReset == [][C38_Reset /\ C38_First]_vars

\* The first update after a reset carried a field of the closing record and
\* a field accumulated from an earlier record with More Data = 1.
C38_Witness ==
    /\ last.op = "notify"
    /\ notify.fresh
    /\ last.events # <<>>
    /\ DOMAIN last.events[1].event_data \ DOMAIN deserialize(notify.data) # {}
    /\ DOMAIN deserialize(notify.data) # {}
    /\ prev = last.events[1].event_data

(* ---------------------------------------------------------------------- *)
(* C39                                                                     *)
(* ---------------------------------------------------------------------- *)

\* A command of the facade is called.
C39_Command(p, cmd) ==
    CommandFailed(p, cmd) \/ CommandWrite(p, cmd) \/ CommandConnect(p, cmd)

\* A command called while disconnect() is the latest of connect() and
\* disconnect() returns FAILED; the connection, the subscriptions, the calls
\* and the requests the machine holds are as before.
C39_Failed ==
    \A p \in SerialCalls, cmd \in LatchCommands :
        (~need_connect /\ C39_Command(p, cmd)) =>
            /\ last'.call.outcome = Return(FAILED)
            /\ last'.call.wrote = <<>>
            /\ UNCHANGED <<connected, subscribed, calls, fut, mq, ncalls>>

\* A command called while connect() is the latest and the transport has
\* dropped connects and subscribes the controller and the updater, and has
\* written nothing when it has done so.
C39_Reconnected ==
    \A p \in SerialCalls, cmd \in LatchCommands :
        (need_connect /\ ~connected /\ C39_Command(p, cmd)) =>
            /\ connected' /\ subscribed'
            /\ prev' = Empty /\ result' = Empty
            /\ calls'[p].cli /\ calls'[p].pc = "write" /\ calls'[p].wrote = <<>>
            /\ mq' = mq

\* A request reaches the machine on a connected and subscribed client only.
C39_Written ==
    \A p \in SerialCalls :
        (calls[p].pc = "write" /\ calls'[p].pc = "await") => connected /\ subscribed

=============================================================================
